---- MODULE Spec2Model ----
(***************************************************************************)
(* AniVerse backend: the conversational action executor (routes/chat.py),  *)
(* the list store it mutates (data/database.py, routes/lists.py,           *)
(* routes/mal_import.py) and the search orchestration (routes/search.py).  *)
(*                                                                         *)
(* Conventions.  A Python Optional is a sequence of length 0 (None) or 1.  *)
(* A table is the sequence of its rows in insertion (rowid) order, so that *)
(* two rows with the same key can be told apart and .first() is the first  *)
(* matching row.  Ratings are integers (the captured decimals are not      *)
(* modelled).  Text is a sequence of lower-case words; "a in b" of Python  *)
(* strings is "a is a contiguous run of words of b".                       *)
(***************************************************************************)
EXTENDS Integers, Sequences, FiniteSets, TLC

VARIABLES user_anime, user_manga, store, manga_store, vector_store,
          vector_store_error, last

vars == <<user_anime, user_manga, store, manga_store, vector_store,
          vector_store_error, last>>

None == <<>>
Some(v) == <<v>>
IsNone(o) == Len(o) = 0
Val(o) == o[1]

(***************************************************************************)
(* Input domains                                                           *)
(***************************************************************************)
\* the user of the requests (OtherRows holds a row of user 2)
ExecUsers == {1}

\* metadata["title"] of the indexed records, lower-cased
anime_title == <<(<<"naruto">>), <<"one", "piece">>>>
manga_title == <<(<<"naruto">>), <<"one", "piece">>>>

\* what the index may answer to one text query: up to five record ids, best first
CandidateLists == {<<>>, <<1>>, <<2, 1>>}
IndexOutcomes ==
    {[mode |-> "construct_raises", cands |-> <<>>],
     [mode |-> "query_raises", cands |-> <<>>]}
    \cup {[mode |-> "ok", cands |-> c] : c \in CandidateLists}

\* title references a pattern may capture
TitleQueries == {<<"naruto">>}
\* numbers a pattern may capture (\d+ has no sign)
RatingArgs == {0, 7, 15}

RATING_MIN == 1
RATING_MAX == 10

(***************************************************************************)
(* Python helpers                                                          *)
(***************************************************************************)
Min(a, b) == IF a < b THEN a ELSE b
Max(a, b) == IF a > b THEN a ELSE b

\* the clamp without its lower end
clamp_no_floor(rating) == Min(RATING_MAX, rating)

\* min(10, max(1, rating))
clamp(rating) == Min(RATING_MAX, Max(RATING_MIN, rating))

\* truth value of an Optional[float]: None and 0.0 are both false
Truthy(o) == ~IsNone(o) /\ Val(o) # 0

\* a in b, for strings
Contains(b, a) ==
    \E i \in 1..(Len(b) - Len(a) + 1) : SubSeq(b, i, i + Len(a) - 1) = a

\* a query that filters on the item only
first_any_user(rows, uid, iid) ==
    LET hits == {i \in 1..Len(rows) : rows[i].item_id = iid}
    IN  IF hits = {} THEN 0 ELSE CHOOSE i \in hits : \A j \in hits : i <= j

\* db.query(T).filter(T.user_id == uid, T.<item>_id == iid).first(): the
\* position of the first matching row, 0 for None
first(rows, uid, iid) ==
    LET hits == {i \in 1..Len(rows) :
                    rows[i].user_id = uid /\ rows[i].item_id = iid}
    IN  IF hits = {} THEN 0 ELSE CHOOSE i \in hits : \A j \in hits : i <= j

\* db.delete(row) of the row at position i
delete(rows, i) == SubSeq(rows, 1, i - 1) \o SubSeq(rows, i + 1, Len(rows))

\* UserAnime(...) / UserManga(...): a new row with the column defaults
Row(uid, iid, status, rating) ==
    [user_id |-> uid, item_id |-> iid, status |-> status, rating |-> rating,
     is_favorite |-> FALSE]

\* the entries of one (user, item) key
entries(rows, uid, iid) ==
    {i \in 1..Len(rows) : rows[i].user_id = uid /\ rows[i].item_id = iid}

(***************************************************************************)
(* Title resolution (chat.py find_anime_by_title / find_manga_by_title)    *)
(***************************************************************************)
\* the first candidate whose title contains the reference or is contained
\* in it, else the top candidate; None when the index answered nothing
best_match(results, title, name) ==
    IF results = <<>> THEN None
    ELSE LET hits == {i \in 1..Len(results) :
                         Contains(name[results[i]], title)
                         \/ Contains(title, name[results[i]])}
         IN  IF hits = {} THEN Some(results[1])
             ELSE Some(results[CHOOSE i \in hits : \A j \in hits : i <= j])

\* get_vector_store() then store.search(): st is the singleton (built or
\* not) before the call; the result carries the singleton after it
find_anime_by_title(title, idx, st) ==
    IF ~st /\ idx.mode = "construct_raises"
    THEN [raised |-> TRUE, hit |-> None, store |-> FALSE]
    ELSE IF idx.mode = "query_raises"
    THEN [raised |-> TRUE, hit |-> None, store |-> TRUE]
    ELSE [raised |-> FALSE,
          hit |-> best_match(idx.cands, title, anime_title),
          store |-> TRUE]

\* the same body inside try/except Exception: return None
find_manga_by_title(title, idx, st) ==
    IF ~st /\ idx.mode = "construct_raises"
    THEN [raised |-> FALSE, hit |-> None, store |-> FALSE]
    ELSE IF idx.mode = "query_raises"
    THEN [raised |-> FALSE, hit |-> None, store |-> TRUE]
    ELSE [raised |-> FALSE,
          hit |-> best_match(idx.cands, title, manga_title),
          store |-> TRUE]

(***************************************************************************)
(* Action executor (chat.py execute_action / execute_manga_action)         *)
(***************************************************************************)
\* ActionResult.  message is the kind of sentence, msg_rating the number the
\* sentence prints (None when it prints none).  committed is a history
\* field: db.commit() of this operation returned before the result was
\* returned (set by commit_then).
ActionResult(action, success, message, msg_rating, id) ==
    [action |-> action, success |-> success, message |-> message,
     msg_rating |-> msg_rating, anime_id |-> id, committed |-> FALSE]

\* what a call of an executor did: the table afterwards, the returned
\* Optional[ActionResult], whether an exception left the call, the singleton
Returned(rows, result, st) ==
    [rows |-> rows, result |-> result, raised |-> FALSE, store |-> st]
Raised(rows, st) ==
    [rows |-> rows, result |-> None, raised |-> TRUE, store |-> st]

\* a failing commit caught and the success reported all the same
commit_then_swallow(before, after, result, st, commit_ok) ==
    IF commit_ok
    THEN Returned(after, Some([result EXCEPT !.committed = TRUE]), st)
    ELSE Returned(before, Some(result), st)

\* db.commit() then return the successful result; a failing commit raises
\* and leaves the table as it was
commit_then(before, after, result, st, commit_ok) ==
    IF commit_ok
    THEN Returned(after, Some([result EXCEPT !.committed = TRUE]), st)
    ELSE Raised(before, st)

CouldntFind(rows, action, st) ==
    Returned(rows, Some(ActionResult(action, FALSE, "couldnt_find", None, None)), st)

\* existing: status (and a truthy rating, clamped) overwritten; else a new row
set_status(rows, uid, iid, status, rating) ==
    LET i == first(rows, uid, iid)
    IN  IF i > 0
        THEN [rows EXCEPT ![i].status = status,
                          ![i].rating = IF Truthy(rating)
                                        THEN Some(clamp(Val(rating)))
                                        ELSE @]
        ELSE Append(rows, Row(uid, iid, status,
                              IF Truthy(rating) THEN Some(clamp(Val(rating)))
                              ELSE None))

\* a rating that also marks the entry completed
set_rating_and_status(rows, uid, iid, rating) ==
    LET i == first(rows, uid, iid)
    IN  IF i > 0 THEN [rows EXCEPT ![i].rating = Some(rating),
                                   ![i].status = "completed"]
        ELSE Append(rows, Row(uid, iid, "completed", Some(rating)))

\* existing: rating overwritten; else a new completed row with the rating
set_rating(rows, uid, iid, rating) ==
    LET i == first(rows, uid, iid)
    IN  IF i > 0 THEN [rows EXCEPT ![i].rating = Some(rating)]
        ELSE Append(rows, Row(uid, iid, "completed", Some(rating)))

\* the add_* branches: "added" result after the commit
add_branch(rows, uid, action, status, rating, f, commit_ok) ==
    IF IsNone(f.hit) THEN CouldntFind(rows, action, f.store)
    ELSE commit_then(rows,
                     set_status(rows, uid, Val(f.hit), status, rating),
                     ActionResult(action, TRUE, "added",
                                  IF Truthy(rating) THEN rating ELSE None,
                                  f.hit),
                     f.store, commit_ok)

\* rate_anime / rate_manga
rate_branch(rows, uid, action, arg, f, commit_ok) ==
    IF IsNone(f.hit) THEN CouldntFind(rows, action, f.store)
    ELSE LET rating == clamp(arg)
         IN  commit_then(rows,
                         set_rating(rows, uid, Val(f.hit), rating),
                         ActionResult(action, TRUE, "rated", Some(rating),
                                      f.hit),
                         f.store, commit_ok)

\* remove_anime / remove_manga
remove_branch(rows, uid, action, f, commit_ok) ==
    IF IsNone(f.hit) THEN CouldntFind(rows, action, f.store)
    ELSE LET i == first(rows, uid, Val(f.hit))
         IN  IF i > 0
             THEN commit_then(rows, delete(rows, i),
                              ActionResult(action, TRUE, "removed", None,
                                           f.hit),
                              f.store, commit_ok)
             ELSE Returned(rows,
                           Some(ActionResult(action, FALSE, "wasnt_in_list",
                                             None, None)),
                           f.store)

\* change_rating that adds the entry it does not find, as rate does
change_branch_upsert(rows, uid, action, arg, f, commit_ok) ==
    rate_branch(rows, uid, action, arg, f, commit_ok)

\* change_rating
change_branch(rows, uid, action, arg, f, commit_ok) ==
    IF IsNone(f.hit) THEN CouldntFind(rows, action, f.store)
    ELSE LET rating == clamp(arg)
             i == first(rows, uid, Val(f.hit))
         IN  IF i > 0
             THEN commit_then(rows, [rows EXCEPT ![i].rating = Some(rating)],
                              ActionResult(action, TRUE, "changed",
                                           Some(rating), f.hit),
                              f.store, commit_ok)
             ELSE Returned(rows,
                           Some(ActionResult(action, FALSE, "not_in_list",
                                             None, None)),
                           f.store)

\* match.group(1) is m.title, match.group(2) is m.rating (an Optional)
execute_action(uid, rows, action_type, m, idx, st, commit_ok) ==
    LET f == find_anime_by_title(m.title, idx, st)
    IN  IF action_type \notin {"add_completed", "add_watching", "add_planned",
                               "rate_anime", "remove_anime", "add_on_hold",
                               "change_rating"}
        THEN Returned(rows, None, st)
        ELSE IF f.raised THEN Raised(rows, f.store)
        ELSE CASE action_type = "add_completed" ->
                    add_branch(rows, uid, action_type, "completed", m.rating, f, commit_ok)
               [] action_type = "add_watching" ->
                    add_branch(rows, uid, action_type, "watching", None, f, commit_ok)
               [] action_type = "add_planned" ->
                    add_branch(rows, uid, action_type, "planned", None, f, commit_ok)
               [] action_type = "add_on_hold" ->
                    add_branch(rows, uid, action_type, "on_hold", None, f, commit_ok)
               [] action_type = "rate_anime" ->
                    rate_branch(rows, uid, action_type, Val(m.rating), f, commit_ok)
               [] action_type = "remove_anime" ->
                    remove_branch(rows, uid, action_type, f, commit_ok)
               [] action_type = "change_rating" ->
                    change_branch(rows, uid, action_type, Val(m.rating), f, commit_ok)

execute_manga_action(uid, rows, action_type, m, idx, st, commit_ok) ==
    LET f == find_manga_by_title(m.title, idx, st)
    IN  IF action_type \notin {"add_manga_completed", "add_manga_reading",
                               "rate_manga", "remove_manga"}
        THEN Returned(rows, None, st)
        ELSE CASE action_type = "add_manga_completed" ->
                    add_branch(rows, uid, action_type, "completed", m.rating, f, commit_ok)
               [] action_type = "add_manga_reading" ->
                    add_branch(rows, uid, action_type, "watching", None, f, commit_ok)
               [] action_type = "rate_manga" ->
                    rate_branch(rows, uid, action_type, Val(m.rating), f, commit_ok)
               [] action_type = "remove_manga" ->
                    remove_branch(rows, uid, action_type, f, commit_ok)

(***************************************************************************)
(* The executors called with one detected intent                           *)
(***************************************************************************)
ANIME_ACTIONS == <<"add_completed", "add_watching", "add_planned",
                   "add_dropped", "add_on_hold", "rate_anime",
                   "change_rating", "remove_anime">>
MANGA_ACTIONS == <<"add_manga_completed", "add_manga_reading",
                   "add_manga_planned", "rate_manga", "remove_manga">>

\* the groups a pattern captures: a title and, for the patterns with a
\* second group, a number (optional for the completed patterns)
Matches(action_type) ==
    LET ratings ==
            IF action_type \in {"rate_anime", "change_rating", "rate_manga"}
            THEN {Some(v) : v \in RatingArgs}
            ELSE IF action_type \in {"add_completed", "add_manga_completed"}
            THEN {None} \cup {Some(v) : v \in RatingArgs}
            ELSE {None}
    IN  {[title |-> t, rating |-> r] : t \in TitleQueries, r \in ratings}

NoRequest ==
    [req |-> "none", kind |-> "none", user |-> 0, action |-> "none",
     arg |-> None, index |-> "unused", resolved |-> None, existed |-> FALSE,
     results |-> <<>>, raised |-> FALSE, commit_failed |-> FALSE,
     after_remove |-> FALSE, resolvable |-> FALSE]

\* what the index did in a call that used it
IndexEvent(idx, st) ==
    IF (~st /\ idx.mode = "construct_raises") \/ idx.mode = "query_raises"
    THEN "unavailable"
    ELSE IF idx.cands = <<>> THEN "no_results" ELSE "ok"

\* the call gets as far as db.commit(): a handled action, a resolved title
\* and, for remove and change_rating, an entry to work on
reaches_commit(rows, uid, action_type, f, index) ==
    /\ index = "ok"
    /\ ~IsNone(f.hit)
    /\ action_type \in {"remove_anime", "remove_manga", "change_rating"}
          => first(rows, uid, Val(f.hit)) > 0

\* the record of one executor call, kept for the properties: the intent, the
\* record the title resolved to, whether the user had an entry for it
\* before, the result, and whether the call followed a successful remove of
\* the same entry
ExecRecord(kind, uid, rows, action_type, m, f, out, commit_ok, index) ==
    [req |-> "execute", kind |-> kind, user |-> uid, action |-> action_type,
     arg |-> m.rating,
     index |-> index,
     resolved |-> IF index = "unused" \/ f.raised THEN None ELSE f.hit,
     existed |-> index # "unused" /\ ~IsNone(f.hit)
                 /\ first(rows, uid, Val(f.hit)) > 0,
     results |-> out.result,
     raised |-> out.raised,
     commit_failed |-> ~commit_ok /\ reaches_commit(rows, uid, action_type, f, index),
     after_remove |->
        /\ index # "unused" /\ ~IsNone(f.hit)
        /\ last.req = "execute" /\ last.kind = kind /\ last.user = uid
        /\ last.action \in {"remove_anime", "remove_manga"}
        /\ last.resolved = f.hit
        /\ last.results # <<>> /\ last.results[1].success,
     \* the index, asked for the title, answers with a record
     resolvable |-> ~f.raised /\ ~IsNone(f.hit)]

\* execute_action reads and writes user_anime and the anime singleton only,
\* execute_manga_action user_manga and the manga singleton only: a run of
\* executor calls drives one of the two, named by last.kind from the start
ExecuteAction ==
    /\ last.kind = "anime"
    /\ \E uid \in ExecUsers, i \in 1..Len(ANIME_ACTIONS), idx \in IndexOutcomes,
          commit_ok \in BOOLEAN :
         \E m \in Matches(ANIME_ACTIONS[i]) :
           \E a \in {ANIME_ACTIONS[i]},
              f \in {find_anime_by_title(m.title, idx, store)},
              out \in {execute_action(uid, user_anime, ANIME_ACTIONS[i], m, idx,
                                      store, commit_ok)} :
               /\ user_anime' = out.rows
               /\ store' = out.store
               /\ last' = ExecRecord("anime", uid, user_anime, a, m, f, out, commit_ok,
                                    IF out.result = None /\ ~out.raised THEN "unused"
                                    ELSE IndexEvent(idx, store))
               /\ UNCHANGED <<user_manga, manga_store, vector_store, vector_store_error>>

ExecuteMangaAction ==
    /\ last.kind = "manga"
    /\ \E uid \in ExecUsers, i \in 1..Len(MANGA_ACTIONS), idx \in IndexOutcomes,
          commit_ok \in BOOLEAN :
         \E m \in Matches(MANGA_ACTIONS[i]) :
           \E a \in {MANGA_ACTIONS[i]},
              f \in {find_manga_by_title(m.title, idx, manga_store)},
              out \in {execute_manga_action(uid, user_manga, MANGA_ACTIONS[i], m,
                                            idx, manga_store, commit_ok)} :
               /\ user_manga' = out.rows
               /\ manga_store' = out.store
               /\ last' = ExecRecord("manga", uid, user_manga, a, m, f, out, commit_ok,
                                    IF out.result = None /\ ~out.raised THEN "unused"
                                    ELSE IndexEvent(idx, manga_store))
               /\ UNCHANGED <<user_anime, store, vector_store, vector_store_error>>

(***************************************************************************)
(* MAL XML import (mal_import.py import_mal_xml)                           *)
(***************************************************************************)
\* MAL_STATUS_MAP.get(status_str, AnimeStatus.planned)
MAL_STATUS_MAP(status_str) ==
    CASE status_str \in {"watching", "1"} -> "watching"
      [] status_str \in {"completed", "2"} -> "completed"
      [] status_str \in {"on_hold", "3"} -> "on_hold"
      [] status_str \in {"dropped", "4"} -> "dropped"
      [] status_str \in {"plan_to_watch", "6"} -> "planned"
      [] OTHER -> "planned"

\* the <anime> elements a file may hold: series_animedb_id, my_status, my_score
XmlItems == {[id |-> 1, status |-> "2", score |-> 8],
             [id |-> 1, status |-> "6", score |-> 0],
             [id |-> 1, status |-> "1", score |-> 11]}
MaxItems == 2
RECURSIVE SeqsUpTo(_, _)
SeqsUpTo(S, n) ==
    IF n = 0 THEN {<<>>}
    ELSE LET shorter == SeqsUpTo(S, n - 1)
         IN  shorter \cup {Append(q, x) : q \in {r \in shorter : Len(r) = n - 1}, x \in S}
XmlFiles == SeqsUpTo(XmlItems, MaxItems)

\* The loop over root.findall(".//anime").  The session does not autoflush
\* (database.py SessionLocal), so the query of an iteration reads the rows
\* of the table only: rows holds them (with the changes made to the loaded
\* objects), pending the objects db.add() has queued for the commit.
RECURSIVE import_loop(_, _, _, _, _, _)
import_loop(uid, rows, pending, items, imported, skipped) ==
    IF items = <<>>
    THEN [rows |-> rows, pending |-> pending, imported |-> imported,
          skipped |-> skipped]
    ELSE LET item == Head(items)
             status == MAL_STATUS_MAP(item.status)
             rating == IF item.score > 0 THEN Some(item.score) ELSE None
             i == first(rows, uid, item.id)
         IN  IF i > 0
             THEN import_loop(uid,
                              [rows EXCEPT ![i].status = status,
                                           ![i].rating = IF Truthy(rating)
                                                         THEN rating ELSE @],
                              pending, Tail(items), imported, skipped + 1)
             ELSE import_loop(uid, rows,
                              Append(pending, Row(uid, item.id, status, rating)),
                              Tail(items), imported + 1, skipped)

\* db.commit() of the session: the changed rows written, the queued rows
\* inserted after the rows of the table
rows_after_commit(r) == r.rows \o r.pending

\* the loop, then db.commit()
import_mal_xml(uid, rows, items, commit_ok) ==
    LET r == import_loop(uid, rows, <<>>, items, 0, 0)
    IN  IF commit_ok
        THEN [rows |-> rows_after_commit(r), raised |-> FALSE,
              imported |-> r.imported, skipped |-> r.skipped]
        ELSE [rows |-> rows, raised |-> TRUE, imported |-> 0, skipped |-> 0]

ImportMalXml ==
    /\ last.kind = "anime"
    /\ \E uid \in ExecUsers, items \in XmlFiles, commit_ok \in BOOLEAN :
         \E out \in {import_mal_xml(uid, user_anime, items, commit_ok)} :
             /\ user_anime' = out.rows
             /\ last' = [NoRequest EXCEPT !.req = "import_xml",
                                          !.kind = "anime",
                                          !.user = uid,
                                          !.raised = out.raised,
                                          !.commit_failed = out.raised]
             /\ UNCHANGED <<user_manga, store, manga_store, vector_store,
                            vector_store_error>>

\* rows of another title and of another user, as the list API leaves them
OtherRows == <<Row(1, 2, "planned", None), Row(2, 1, "dropped", Some(5))>>

Init ==
    /\ user_anime \in {<<>>, OtherRows}
    /\ user_manga = user_anime
    /\ store = FALSE
    /\ manga_store = FALSE
    /\ vector_store = FALSE
    /\ vector_store_error = FALSE
    /\ last \in {[NoRequest EXCEPT !.kind = k] : k \in {"anime", "manga"}}

Next == ExecuteAction \/ ExecuteMangaAction \/ ImportMalXml
Spec == Init /\ [][Next]_vars

(***************************************************************************)
(* The list API (lists.py).  The manga handlers (add_manga_to_list,        *)
(* update_manga_list_entry, remove_manga_from_list) are the same code on   *)
(* user_manga.                                                             *)
(***************************************************************************)
ListUsers == {1}
ListItemIds == {1}
ListStatuses == {"watching"}
ListRatings == {None, Some(10), Some(11)}

\* Field(None, ge=1, le=10) of the request models: a request with a rating
\* out of range is answered 422 before the handler runs
valid_rating(rating) ==
    IsNone(rating) \/ (RATING_MIN <= Val(rating) /\ Val(rating) <= RATING_MAX)

AddToListRequests ==
    {[item_id |-> iid, status |-> s, rating |-> r, is_favorite |-> f] :
        iid \in ListItemIds, s \in ListStatuses, r \in ListRatings,
        f \in BOOLEAN}

\* UpdateListRequest: every field optional
UpdateListRequests ==
    {[status |-> s, rating |-> r, is_favorite |-> f] :
        s \in {None} \cup {Some(x) : x \in ListStatuses}, r \in ListRatings,
        f \in {None, Some(TRUE)}}

Answer(rows, code) == [rows |-> rows, status_code |-> code]

\* db.commit() of a handler: the changed table and 200, or the exception
\* (500) with the table as it was
commit_or_500(rows, changed, commit_ok) ==
    IF commit_ok THEN Answer(changed, 200) ELSE Answer(rows, 500)

\* POST /api/lists/add
add_to_list(uid, rows, request, commit_ok) ==
    IF ~valid_rating(request.rating) THEN Answer(rows, 422)
    ELSE LET i == first(rows, uid, request.item_id)
         IN  IF i > 0
             THEN commit_or_500(rows,
                    [rows EXCEPT ![i].status = request.status,
                                 ![i].rating = IF IsNone(request.rating) THEN @
                                               ELSE request.rating,
                                 ![i].is_favorite = request.is_favorite],
                    commit_ok)
             ELSE commit_or_500(rows,
                    Append(rows,
                           [Row(uid, request.item_id, request.status,
                                request.rating)
                               EXCEPT !.is_favorite = request.is_favorite]),
                    commit_ok)

\* PATCH /api/lists/{anime_id}
update_list_entry(uid, rows, item_id, request, commit_ok) ==
    IF ~valid_rating(request.rating) THEN Answer(rows, 422)
    ELSE LET i == first(rows, uid, item_id)
         IN  IF i = 0 THEN Answer(rows, 404)
             ELSE commit_or_500(rows,
                    [rows EXCEPT ![i].status = IF IsNone(request.status) THEN @
                                               ELSE Val(request.status),
                                 ![i].rating = IF IsNone(request.rating) THEN @
                                               ELSE request.rating,
                                 ![i].is_favorite =
                                     IF IsNone(request.is_favorite) THEN @
                                     ELSE Val(request.is_favorite)],
                    commit_ok)

\* DELETE /api/lists/{anime_id}
remove_from_list(uid, rows, item_id, commit_ok) ==
    LET i == first(rows, uid, item_id)
    IN  IF i = 0 THEN Answer(rows, 404)
        ELSE commit_or_500(rows, delete(rows, i), commit_ok)

ListRecord(req, uid, out) ==
    [NoRequest EXCEPT !.req = req, !.kind = last.kind, !.user = uid,
                      !.raised = out.status_code # 200,
                      !.commit_failed = out.status_code = 500]

\* the table of the run is the one named by last.kind
SetTable(rows) ==
    IF last.kind = "anime"
    THEN user_anime' = rows /\ UNCHANGED user_manga
    ELSE user_manga' = rows /\ UNCHANGED user_anime

AddToList ==
    \E uid \in ListUsers, request \in AddToListRequests, commit_ok \in BOOLEAN :
      \E out \in {add_to_list(uid, IF last.kind = "anime" THEN user_anime
                                   ELSE user_manga, request, commit_ok)} :
        /\ SetTable(out.rows)
        /\ last' = ListRecord("add_to_list", uid, out)
        /\ UNCHANGED <<store, manga_store, vector_store, vector_store_error>>

UpdateListEntry ==
    \E uid \in ListUsers, item_id \in ListItemIds,
       request \in UpdateListRequests, commit_ok \in BOOLEAN :
      \E out \in {update_list_entry(uid, IF last.kind = "anime" THEN user_anime
                                         ELSE user_manga, item_id, request,
                                    commit_ok)} :
        /\ SetTable(out.rows)
        /\ last' = ListRecord("update_list_entry", uid, out)
        /\ UNCHANGED <<store, manga_store, vector_store, vector_store_error>>

RemoveFromList ==
    \E uid \in ListUsers, item_id \in ListItemIds, commit_ok \in BOOLEAN :
      \E out \in {remove_from_list(uid, IF last.kind = "anime" THEN user_anime
                                        ELSE user_manga, item_id, commit_ok)} :
        /\ SetTable(out.rows)
        /\ last' = ListRecord("remove_from_list", uid, out)
        /\ UNCHANGED <<store, manga_store, vector_store, vector_store_error>>

NextLists ==
    \/ ExecuteAction
    \/ ExecuteMangaAction
    \/ AddToList
    \/ UpdateListEntry
    \/ RemoveFromList

SpecLists == Init /\ [][NextLists]_vars

(***************************************************************************)
(* Intent detection (chat.py ACTION_PATTERNS, MANGA_ACTION_PATTERNS)       *)
(*                                                                         *)
(* An utterance is message.lower() split at white space.  A pattern is the *)
(* sequence of its parts: a part is a set of alternative word runs (a "#"  *)
(* in a run stands for \d+(?:\.\d+)? and is captured as the number), which *)
(* may be optional (greedy), or the lazy title group (.+?).  The optional  *)
(* endings that capture nothing and close a pattern are left out: they do  *)
(* not change what re.search returns                                       *)
(***************************************************************************)
Lit(alts) == [kind |-> "lit", alts |-> alts, opt |-> FALSE]
Opt(alts) == [kind |-> "lit", alts |-> alts, opt |-> TRUE]
TitleGroup == [kind |-> "title", alts |-> {}, opt |-> FALSE]
W(w) == {<<w>>}

NumTokens == {"0", "7", "15"}
NumVal(tok) == CASE tok = "0" -> 0 [] tok = "7" -> 7 [] tok = "15" -> 15

ADD_VERBS == {<<"add">>, <<"mark">>, <<"set">>, <<"put">>}
PREPS == {<<"to">>, <<"as">>, <<"in">>}
\* (?:\s+with\s+(?:a\s+)?rating\s+(?:of\s+)?(\d+(?:\.\d+)?))?
RATING_TAIL ==
    Opt({<<"with", "rating", "#">>, <<"with", "a", "rating", "#">>,
         <<"with", "rating", "of", "#">>, <<"with", "a", "rating", "of", "#">>})

AddPattern(lists, tail) ==
    <<Lit(ADD_VERBS), TitleGroup, Lit(PREPS), Opt(W("my")), Lit(lists),
      Opt(W("list"))>> \o tail
AddMangaPattern(lists, tail) ==
    <<Lit(ADD_VERBS), TitleGroup, Opt(W("manga")), Lit(PREPS), Opt(W("my")),
      Opt(W("manga")), Lit(lists), Opt(W("list"))>> \o tail

ACTION_PATTERNS ==
    [add_completed |-> AddPattern(W("completed"), <<RATING_TAIL>>),
     add_watching |-> AddPattern({<<"watching">>, <<"currently", "watching">>}, <<>>),
     add_planned |-> AddPattern({<<"plan">>, <<"planned">>, <<"watchlist">>, <<"ptw">>}, <<>>),
     add_dropped |-> AddPattern(W("dropped"), <<>>),
     add_on_hold |-> AddPattern({<<"on", "hold">>, <<"onhold">>, <<"on_hold">>,
                                 <<"on-hold">>, <<"paused">>}, <<>>),
     rate_anime |-> <<Lit({<<"rate">>, <<"give">>, <<"score">>}), TitleGroup,
                      Opt(W("a")), Lit(W("#"))>>,
     change_rating |-> <<Lit({<<"change">>, <<"update">>, <<"set">>}),
                         Opt(W("the")), Lit(W("rating")), Opt(W("of")),
                         TitleGroup, Lit(W("to")), Lit(W("#"))>>,
     remove_anime |-> <<Lit({<<"remove">>, <<"delete">>, <<"take", "off">>}),
                        TitleGroup, Lit(W("from")), Opt(W("my")),
                        Lit({<<"list">>, <<"watchlist">>, <<"anime", "list">>})>>]

MANGA_ACTION_PATTERNS ==
    [add_manga_completed |-> AddMangaPattern(W("completed"), <<RATING_TAIL>>),
     add_manga_reading |-> AddMangaPattern({<<"reading">>, <<"currently", "reading">>}, <<>>),
     add_manga_planned |-> AddMangaPattern({<<"plan">>, <<"planned">>, <<"ptr">>}, <<>>),
     rate_manga |-> <<Lit({<<"rate">>, <<"give">>, <<"score">>}), TitleGroup,
                      Opt(W("manga")), Opt(W("a")), Lit(W("#"))>>,
     remove_manga |-> <<Lit({<<"remove">>, <<"delete">>, <<"take", "off">>}),
                        TitleGroup, Opt(W("manga")), Lit(W("from")),
                        Opt(W("my")), Opt(W("manga")),
                        Lit({<<"list">>, <<"reading", "list">>})>>]

\* the run a fits the words of u from position pos on
Fits(u, pos, a) ==
    /\ pos + Len(a) - 1 <= Len(u)
    /\ \A j \in 1..Len(a) :
          IF a[j] = "#" THEN u[pos + j - 1] \in NumTokens
          ELSE u[pos + j - 1] = a[j]

\* the match m with the number the run a captures at pos, if it has a "#"
Captured(u, pos, a, m) ==
    IF \E j \in 1..Len(a) : a[j] = "#"
    THEN [m EXCEPT !.rating =
             Some(NumVal(u[pos + (CHOOSE j \in 1..Len(a) : a[j] = "#") - 1]))]
    ELSE m

\* of the pairs <<position, match>> the matches at the least position
Leftmost(pairs) == {p[2] : p \in {q \in pairs : \A o \in pairs : q[1] <= o[1]}}

\* The match of the parts from position pos on, as the backtracking matcher
\* finds it: the set with the groups [title, rating] of the match, or {}.
\* An optional part is taken when the rest then matches, the title is the
\* shortest run of words after which the rest matches
RECURSIVE match_from(_, _, _)
match_from(u, pos, parts) ==
    IF parts = <<>> THEN {[title |-> <<>>, rating |-> None]}
    ELSE IF Head(parts).kind = "title"
    THEN UNION {{[p[2] EXCEPT !.title = SubSeq(u, pos, p[1] - 1)] :
                    p \in {q \in ends : \A o \in ends : q[1] <= o[1]}} :
                ends \in {UNION {{<<k, m>> : m \in match_from(u, k, Tail(parts))} :
                                 k \in (pos + 1)..(Len(u) + 1)}}}
    ELSE UNION {IF taken # {} THEN taken
                ELSE IF Head(parts).opt THEN match_from(u, pos, Tail(parts))
                ELSE {} :
                taken \in {UNION {{Captured(u, pos, a, m) :
                                     m \in match_from(u, pos + Len(a), Tail(parts))} :
                                  a \in {b \in Head(parts).alts : Fits(u, pos, b)}}}}

\* re.search(pattern, message_lower): the match at the leftmost start
search(parts, u) ==
    UNION {Leftmost(pairs) :
           pairs \in {UNION {{<<i, m>> : m \in match_from(u, i, parts)} :
                             i \in 1..Len(u)}}}

\* the messages of the chat turns
Utterances ==
    {<<"add", "naruto", "to", "my", "completed", "list">>,
     <<"add", "naruto", "manga", "to", "my", "planned", "list">>,
     <<"add", "naruto", "to", "my", "dropped", "list">>,
     <<"add", "naruto", "to", "my", "watching", "list", "and", "set",
       "rating", "of", "naruto", "to", "7">>,
     <<"mark", "naruto", "as", "paused">>,
     <<"rate", "naruto", "7">>,
     <<"remove", "naruto", "from", "my", "anime", "list">>,
     <<"recommend", "something", "like", "naruto">>}

\* re.search of every pattern of the two tables on every message
MangaMatch == [u \in Utterances |->
                 [a \in DOMAIN MANGA_ACTION_PATTERNS |->
                     search(MANGA_ACTION_PATTERNS[a], u)]]
AnimeMatch == [u \in Utterances |->
                 [a \in DOMAIN ACTION_PATTERNS |->
                     search(ACTION_PATTERNS[a], u)]]

(***************************************************************************)
(* A chat turn (chat.py detect_and_execute_actions, chat)                  *)
(***************************************************************************)
IndexModes == {"construct_raises", "query_raises", "ok"}
ChatIndexOutcomes ==
    {[mode |-> m, cands |-> <<>>] : m \in {"construct_raises", "query_raises"}}
    \cup {[mode |-> "ok", cands |-> c] : c \in {<<>>, <<1>>}}

\* the turn so far: the two tables, the two singletons, the list actions,
\* the action types whose executor has been called (in call order), whether
\* an exception is leaving the turn, whether the function has returned
Turn(anime, manga, st, mst) ==
    [anime |-> anime, manga |-> manga, store |-> st, manga_store |-> mst,
     actions |-> <<>>, fired |-> <<>>, raised |-> FALSE, returned |-> FALSE]

\* the turn after a call of execute_manga_action for the rule a: a result
\* that is not None is appended and returned at once
manga_called(t, a, out) ==
    [t EXCEPT !.manga = out.rows,
              !.manga_store = out.store,
              !.fired = Append(@, a),
              !.actions = @ \o out.result,
              !.raised = out.raised,
              !.returned = ~out.raised /\ out.result # None]

\* the loop over MANGA_ACTION_PATTERNS.items() from the i-th rule on
RECURSIVE manga_rules(_, _, _, _, _)
manga_rules(uid, u, env, t, i) ==
    IF i > Len(MANGA_ACTIONS) THEN t
    ELSE IF MangaMatch[u][MANGA_ACTIONS[i]] = {}
    THEN manga_rules(uid, u, env, t, i + 1)
    ELSE CHOOSE after \in
            {IF called.raised \/ called.returned THEN called
             ELSE manga_rules(uid, u, env, called, i + 1) :
             called \in {manga_called(t, MANGA_ACTIONS[i], out) :
                         out \in {execute_manga_action(uid, t.manga, MANGA_ACTIONS[i],
                                                       m, env.idx, t.manga_store,
                                                       env.commit_ok) :
                                  m \in MangaMatch[u][MANGA_ACTIONS[i]]}}} : TRUE

\* the turn after a call of execute_action for the rule a: a result that is
\* not None is appended
anime_called(t, a, out) ==
    [t EXCEPT !.anime = out.rows,
              !.store = out.store,
              !.fired = Append(@, a),
              !.actions = @ \o out.result,
              !.raised = out.raised]

\* the loop over ACTION_PATTERNS.items() from the i-th rule on
RECURSIVE anime_rules(_, _, _, _, _)
anime_rules(uid, u, env, t, i) ==
    IF i > Len(ANIME_ACTIONS) THEN t
    ELSE IF AnimeMatch[u][ANIME_ACTIONS[i]] = {}
    THEN anime_rules(uid, u, env, t, i + 1)
    ELSE CHOOSE after \in
            {IF called.raised THEN called
             ELSE anime_rules(uid, u, env, called, i + 1) :
             called \in {anime_called(t, ANIME_ACTIONS[i], out) :
                         out \in {execute_action(uid, t.anime, ANIME_ACTIONS[i],
                                                 m, env.idx, t.store,
                                                 env.commit_ok) :
                                  m \in AnimeMatch[u][ANIME_ACTIONS[i]]}}} : TRUE

\* user is an Optional user id; env holds what the index and the commits of
\* this turn do
detect_and_execute_actions(message, user, env, t) ==
    IF user = None THEN t
    ELSE CHOOSE after \in
            {IF mt.raised \/ mt.returned THEN mt
             ELSE anime_rules(Val(user), message, env, mt, 1) :
             mt \in {manga_rules(Val(user), message, env, t, 1)}} : TRUE

\* get_user_profile_context: with rated entries it asks for the anime
\* singleton and so may construct it; every failure is caught
get_user_profile_context(user, rows, st, ridx) ==
    IF \E i \in 1..Len(rows) :
           rows[i].user_id = Val(user) /\ rows[i].rating # None
    THEN st \/ ridx # "construct_raises"
    ELSE st

\* the handler after detect_and_execute_actions left the turn t: the
\* profile, the retrieval when use_context, the block of the actions in the
\* context of the generator, the generator call.  failed names the stage an
\* exception left the turn at
build_context_and_reply(request, user, env, t) ==
    LET st1 == IF user = None THEN t.store
               ELSE get_user_profile_context(user, t.anime, t.store, env.ridx)
        constructed == st1 \/ env.ridx # "construct_raises"
        retrieval_raises == request.use_context
                            /\ (~constructed \/ env.ridx = "query_raises")
        st2 == IF request.use_context THEN constructed ELSE st1
        action_context == [i \in 1..Len(t.actions) |-> t.actions[i].message]
    IN  IF t.raised THEN [turn |-> t, action_context |-> <<>>, failed |-> "actions"]
        ELSE IF retrieval_raises
        THEN [turn |-> [t EXCEPT !.store = st2], action_context |-> <<>>,
              failed |-> "retrieval"]
        ELSE [turn |-> [t EXCEPT !.store = st2],
              action_context |-> action_context,
              failed |-> IF env.llm_ok THEN "none" ELSE "generator"]

\* a handler that undoes the actions of a turn that fails
chat_rollback(request, user, env, t0) ==
    CHOOSE response \in
        {IF out.failed = "none" THEN out
         ELSE [out EXCEPT !.turn.anime = t0.anime, !.turn.manga = t0.manga] :
         out \in {build_context_and_reply(request, user, env, t) :
                  t \in {detect_and_execute_actions(request.message, user, env,
                                                    t0)}}} : TRUE

chat(request, user, env, t0) ==
    CHOOSE response \in
        {build_context_and_reply(request, user, env, t) :
         t \in {detect_and_execute_actions(request.message, user, env, t0)}} : TRUE

ChatUsers == {None, Some(1)}

\* the values of an input the turn reads; one value when it does not
Read(S, is_read) == IF is_read THEN S ELSE {CHOOSE x \in S : TRUE}

\* the record of one turn, kept for the properties
ChatRecord(user, message, out, anime_before, manga_before) ==
    [req |-> "chat", user |-> user,
     manga_matched |-> \E a \in DOMAIN MANGA_ACTION_PATTERNS :
                           MangaMatch[message][a] # {},
     fired |-> out.turn.fired,
     actions_taken |-> out.turn.actions,
     action_context |-> out.action_context,
     failed |-> out.failed,
     anime_changed |-> out.turn.anime # anime_before,
     manga_changed |-> out.turn.manga # manga_before,
     \* the message holds a word that names the manga list
     manga_word |-> \E i \in 1..Len(message) :
                        message[i] \in {"manga", "reading", "read"}]

ChatTurn ==
    \E user \in ChatUsers, use_context \in BOOLEAN, ridx \in IndexModes,
       llm_ok \in BOOLEAN :
      \E message \in Read(Utterances, user # None),
         idx \in Read(ChatIndexOutcomes, user # None),
         commit_ok \in Read(BOOLEAN, user # None) :
        \E out \in {chat([message |-> message, use_context |-> use_context],
                         user,
                         [idx |-> idx, ridx |-> ridx, commit_ok |-> commit_ok,
                          llm_ok |-> llm_ok],
                         Turn(user_anime, user_manga, store, manga_store))} :
            /\ user_anime' = out.turn.anime
            /\ user_manga' = out.turn.manga
            /\ store' = out.turn.store
            /\ manga_store' = out.turn.manga_store
            /\ last' = ChatRecord(user, message, out, user_anime, user_manga)
            /\ UNCHANGED <<vector_store, vector_store_error>>

InitChat ==
    /\ user_anime = OtherRows
    /\ user_manga = OtherRows
    /\ store = FALSE
    /\ manga_store = FALSE
    /\ vector_store = FALSE
    /\ vector_store_error = FALSE
    /\ last = NoRequest

NextChat == ChatTurn
SpecChat == InitChat /\ [][NextChat]_vars

(***************************************************************************)
(* Retrieval context of a chat turn (chat.py chat, use_context)            *)
(***************************************************************************)
\* store.search(query=request.message, n_results=30)
N_RESULTS == 30
\* rerank_results(results, limit=15) and filtered[:15]
CONTEXT_LIMIT == 15
\* reranked[:5]
KEEP_TOP == 5

\* the ids the index holds, and the orders rerank_results may put them in
CatalogIds == 1..N_RESULTS
Ascending == [i \in CatalogIds |-> i]
Descending == [i \in CatalogIds |-> N_RESULTS + 1 - i]
ContextOrders == {Ascending, Descending}

\* how many results the index answers with
ResultCounts == {0, 3, 5, 6, 9, 12, 15, 16, N_RESULTS}

\* {item.anime_id for item in the rows of the user}
ContextLists ==
    {{}, {1}, {2, 6}, {6, 7, 8}, 1..10, 20..N_RESULTS, CatalogIds}

\* s[:n]
Take(s, n) == SubSeq(s, 1, Min(n, Len(s)))
\* s[n:]
Drop(s, n) == SubSeq(s, Min(n, Len(s)) + 1, Len(s))

\* a filter that spares no result
filter_context_all(reranked, user_anime_ids) ==
    Take(SelectSeq(reranked, LAMBDA r : r \notin user_anime_ids),
         CONTEXT_LIMIT)

\* filtered = reranked[:5] + [r for r in reranked[5:] if r["mal_id"] not in
\* user_anime_ids]; reranked = filtered[:15]
filter_context(reranked, user_anime_ids) ==
    Take(Take(reranked, KEEP_TOP)
            \o SelectSeq(Drop(reranked, KEEP_TOP),
                         LAMBDA r : r \notin user_anime_ids),
         CONTEXT_LIMIT)

\* the results of the turn: ranked holds the ids the index answered with in
\* the order of their combined scores; the user is an Optional set of ids
retrieval_context(ranked, user) ==
    LET reranked == Take(ranked, CONTEXT_LIMIT)
    IN  IF user = None THEN reranked
        ELSE filter_context(reranked, Val(user))

\* the retrieval of one chat turn with use_context
RetrievalContext ==
    /\ \E order \in ContextOrders, n \in ResultCounts,
          user \in {None} \cup {Some(ids) : ids \in ContextLists} :
         last' = [req |-> "context", user |-> user,
                  ranked |-> Take(order, n),
                  context |-> retrieval_context(Take(order, n), user)]
    /\ UNCHANGED <<user_anime, user_manga, store, manga_store, vector_store,
                   vector_store_error>>

InitContext ==
    /\ user_anime = <<>>
    /\ user_manga = <<>>
    /\ store = TRUE
    /\ manga_store = FALSE
    /\ vector_store = FALSE
    /\ vector_store_error = FALSE
    /\ last = NoRequest

NextContext == RetrievalContext
SpecContext == InitContext /\ [][NextContext]_vars

(***************************************************************************)
(* Bulk upsert (chroma_store.py AnimeVectorStore.add_batch; the code of    *)
(* manga_chroma_store.py MangaVectorStore.add_batch is the same)           *)
(***************************************************************************)
\* bound on len(ids)
MaxBatchItems == 5

BatchOrders == {<<1, 2, 3, 4, 5, 6>>, <<4, 1, 6, 3, 5, 2>>}
\* ids: distinct MAL ids, texts: one document per id
BatchInputs ==
    {[ids |-> Take(order, n), texts |-> [i \in 1..n |-> "new"]] :
        order \in BatchOrders, n \in 0..MaxBatchItems}
BatchSizes == {1, 2, 3}

\* the collection before the call: document id -> document
Collections == {<<>>, [id \in {"1"} |-> "old"], [id \in {"4", "5"} |-> "old"]}

\* ids[i:i+batch_size] for the 0-based offset i
Slice(s, i, batch_size) == SubSeq(s, i + 1, Min(i + batch_size, Len(s)))

\* self.collection.upsert(ids, documents): the documents of the batch
\* replace or extend those of the collection
upsert(collection, batch_ids, batch_texts) ==
    [id \in DOMAIN collection \cup {batch_ids[k] : k \in 1..Len(batch_ids)} |->
        IF \E k \in 1..Len(batch_ids) : batch_ids[k] = id
        THEN batch_texts[CHOOSE k \in 1..Len(batch_ids) : batch_ids[k] = id]
        ELSE collection[id]]

\* a loop that goes on with the next batch when an upsert raises
RECURSIVE add_batch_skipping(_, _, _, _, _, _, _)
add_batch_skipping(collection, ids, texts, batch_size, i, fail_at, batches) ==
    IF i >= Len(ids)
    THEN [collection |-> collection, batches |-> batches, raised |-> FALSE]
    ELSE IF Len(batches) + 1 = fail_at
    THEN add_batch_skipping(collection, ids, texts, batch_size,
                            i + batch_size, 0,
                            Append(batches, <<>>))
    ELSE add_batch_skipping(
            upsert(collection,
                   [k \in 1..Len(Slice(ids, i, batch_size)) |->
                       ToString(Slice(ids, i, batch_size)[k])],
                   Slice(texts, i, batch_size)),
            ids, texts, batch_size, i + batch_size, fail_at,
            Append(batches, Slice(ids, i, batch_size)))

\* for i in range(0, total, batch_size): upsert of the slice at i.  batches
\* are the slices upserted so far; the upsert of batch number fail_at
\* raises (0: none does), and the exception leaves the call
RECURSIVE add_batch(_, _, _, _, _, _, _)
add_batch(collection, ids, texts, batch_size, i, fail_at, batches) ==
    IF i >= Len(ids)
    THEN [collection |-> collection, batches |-> batches, raised |-> FALSE]
    ELSE IF Len(batches) + 1 = fail_at
    THEN [collection |-> collection, batches |-> batches, raised |-> TRUE]
    ELSE add_batch(
            upsert(collection,
                   [k \in 1..Len(Slice(ids, i, batch_size)) |->
                       ToString(Slice(ids, i, batch_size)[k])],
                   Slice(texts, i, batch_size)),
            ids, texts, batch_size, i + batch_size, fail_at,
            Append(batches, Slice(ids, i, batch_size)))

\* one call of add_batch
AddBatch ==
    /\ \E input \in BatchInputs, batch_size \in BatchSizes,
          before \in Collections, fail_at \in 0..MaxBatchItems :
         \E out \in {add_batch(before, input.ids, input.texts, batch_size, 0,
                               fail_at, <<>>)} :
            last' = [req |-> "add_batch", ids |-> input.ids,
                     batch_size |-> batch_size, before |-> before,
                     fail_at |-> fail_at, batches |-> out.batches,
                     raised |-> out.raised, collection |-> out.collection]
    /\ UNCHANGED <<user_anime, user_manga, store, manga_store, vector_store,
                   vector_store_error>>

InitBatch ==
    /\ user_anime = <<>>
    /\ user_manga = <<>>
    /\ store = TRUE
    /\ manga_store = TRUE
    /\ vector_store = FALSE
    /\ vector_store_error = FALSE
    /\ last = NoRequest

NextBatch == AddBatch
SpecBatch == InitBatch /\ [][NextBatch]_vars

(***************************************************************************)
(* Construction of the adapters (chroma_store.py AnimeVectorStore.__init__,*)
(* manga_chroma_store.py MangaVectorStore.__init__)                        *)
(***************************************************************************)
\* what a call into chromadb does: it returns, or raises an exception whose
\* text holds the word "conflict", or raises another exception
CallOutcomes == {"ok", "conflict", "other"}

\* the calls of a constructor: PersistentClient(...), get_collection with
\* the embedding function, get_or_create_collection, collection.count(),
\* and whether get_collection(name) without an embedding function returns
ConstructEnvs ==
    [client : CallOutcomes, get : CallOutcomes, create : CallOutcomes,
     count : CallOutcomes, plain : BOOLEAN]

\* the exception that leaves the outer try block, "ok" when none does
init_error(env) ==
    IF env.client # "ok" THEN env.client
    ELSE IF env.get # "ok" /\ env.create # "ok" THEN env.create
    ELSE env.count

Constructed(mode) == [raised |-> FALSE, mode |-> mode]
ConstructorRaised == [raised |-> TRUE, mode |-> "none"]

\* AnimeVectorStore(): the except branch tries get_collection(name="anime")
\* only if 'conflict' in str(e).lower(); without self.client the attempt
\* raises and is swallowed; then the exception is raised again
AnimeVectorStore(env) ==
    IF init_error(env) = "ok" THEN Constructed("full")
    ELSE IF init_error(env) = "conflict" /\ env.client = "ok" /\ env.plain
    THEN Constructed("degraded")
    ELSE ConstructorRaised

\* MangaVectorStore(): the except branch prints and raises
MangaVectorStore(env) ==
    IF init_error(env) = "ok" THEN Constructed("full")
    ELSE ConstructorRaised

\* a call of get_vector_store() / get_manga_vector_store(): the constructor
\* runs while the singleton is None, and its instance is cached when it
\* returns
ConstructAdapter ==
    /\ \E kind \in {"anime", "manga"}, env \in ConstructEnvs :
         \E singleton \in {IF kind = "anime" THEN store ELSE manga_store},
            out \in {IF kind = "anime" THEN AnimeVectorStore(env)
                     ELSE MangaVectorStore(env)} :
            /\ IF kind = "anime"
               THEN /\ store' = (singleton \/ ~out.raised)
                    /\ UNCHANGED manga_store
               ELSE /\ manga_store' = (singleton \/ ~out.raised)
                    /\ UNCHANGED store
            /\ last' = [req |-> "construct", kind |-> kind, env |-> env,
                        ran |-> ~singleton,
                        raised |-> ~singleton /\ out.raised,
                        mode |-> IF singleton THEN "cached" ELSE out.mode,
                        cached |-> singleton \/ ~out.raised]
    /\ UNCHANGED <<user_anime, user_manga, vector_store, vector_store_error>>

InitConstruct ==
    /\ user_anime = <<>>
    /\ user_manga = <<>>
    /\ store = FALSE
    /\ manga_store = FALSE
    /\ vector_store = FALSE
    /\ vector_store_error = FALSE
    /\ last = NoRequest

NextConstruct == ConstructAdapter
SpecConstruct == InitConstruct /\ [][NextConstruct]_vars

(***************************************************************************)
(* Search (search.py)                                                      *)
(***************************************************************************)
\* load_anime_dataset(): the rows of the catalogue in file order; a text
\* column is the sequence of its words
dataset ==
    <<[mal_id |-> 1, title |-> <<"naruto">>, synopsis |-> <<"ninja", "village">>,
       genres |-> <<"action">>, score |-> 8, media_type |-> "tv"],
      [mal_id |-> 2, title |-> <<"one", "piece">>,
       synopsis |-> <<"pirate", "treasure">>,
       genres |-> <<"action", "adventure">>, score |-> 9, media_type |-> "tv"],
      [mal_id |-> 3, title |-> <<"ninja", "scroll">>,
       synopsis |-> <<"ninja", "action">>,
       genres |-> <<"action">>, score |-> 8, media_type |-> "movie"]>>

\* word in text, for whole words
In(word, text) == \E i \in 1..Len(text) : text[i] = word

RECURSIVE match_score(_, _)
match_score(row, query_words) ==
    IF query_words = <<>> THEN 0
    ELSE LET word == Head(query_words)
         IN  (IF In(word, row.title) THEN 10 ELSE 0)
             + (IF In(word, row.synopsis) THEN 1 ELSE 0)
             + (IF In(word, row.genres) THEN 5 ELSE 0)
             + match_score(row, Tail(query_words))

\* the positions of the rows of df for which keep holds, in order
RECURSIVE positions(_, _)
positions(n, keep) ==
    IF n = 0 THEN <<>>
    ELSE IF n \in keep THEN Append(positions(n - 1, keep), n)
    ELSE positions(n - 1, keep)

\* the rows left in the order of the catalog
sort_values_unsorted(ps, query_words) == ps

\* sort_values(['match_score', 'score'], ascending=[False, False]) of the
\* rows at the positions ps: rows that tie keep their order
RECURSIVE sort_values(_, _)
sort_values(ps, query_words) ==
    IF ps = <<>> THEN <<>>
    ELSE LET before(i, j) ==
                 \/ match_score(dataset[ps[i]], query_words)
                       > match_score(dataset[ps[j]], query_words)
                 \/ /\ match_score(dataset[ps[i]], query_words)
                          = match_score(dataset[ps[j]], query_words)
                    /\ \/ dataset[ps[i]].score > dataset[ps[j]].score
                       \/ dataset[ps[i]].score = dataset[ps[j]].score /\ i < j
             top == CHOOSE i \in 1..Len(ps) :
                        \A j \in 1..Len(ps) : j # i => before(i, j)
         IN  <<ps[top]>> \o sort_values(delete(ps, top), query_words)

\* the mal_ids of the rows text_search_fallback returns, in order
text_search_fallback(query, limit, genre, min_score, media_type) ==
    LET keep == {n \in 1..Len(dataset) :
                    /\ match_score(dataset[n], query) > 0
                    /\ genre # None => In(Val(genre), dataset[n].genres)
                    /\ Truthy(min_score) => dataset[n].score >= Val(min_score)
                    /\ media_type # None
                          => dataset[n].media_type = Val(media_type)}
        sorted == sort_values(positions(Len(dataset), keep), query)
    IN  [i \in 1..Min(limit, Len(sorted)) |-> dataset[sorted[i]].mal_id]

\* "similarity": row['match_score'] / 100 of the returned rows, in hundredths
fallback_similarity(results, query) ==
    [i \in 1..Len(results) |->
        match_score(dataset[CHOOSE n \in 1..Len(dataset) :
                               dataset[n].mal_id = results[i]], query)]

\* get_vector_store_safe(): the handle (or None: FALSE), the globals and
\* the chroma singleton afterwards, whether AnimeVectorStore was asked for
get_vector_store_safe(vs, err, st, idx) ==
    IF err
    THEN [handle |-> FALSE, vector_store |-> vs, vector_store_error |-> err,
          store |-> st, attempted |-> FALSE, failed |-> FALSE]
    ELSE IF vs
    THEN [handle |-> TRUE, vector_store |-> vs, vector_store_error |-> err,
          store |-> st, attempted |-> FALSE, failed |-> FALSE]
    ELSE IF ~st /\ idx.mode = "construct_raises"
    THEN [handle |-> FALSE, vector_store |-> FALSE, vector_store_error |-> TRUE,
          store |-> st, attempted |-> TRUE, failed |-> TRUE]
    ELSE [handle |-> TRUE, vector_store |-> TRUE, vector_store_error |-> err,
          store |-> TRUE, attempted |-> TRUE, failed |-> FALSE]

SearchQueries == {<<"naruto">>, <<"ninja", "action">>, <<"action">>}
SearchLimits == {1, 2}
SearchGenres == {None, Some("adventure")}
SearchMinScores == {None, Some(9)}
SearchMediaTypes == {None, Some("tv")}
SimilarIds == {1, 4}

\* store.search(query, n_results=limit, where): at most limit results
index_search(idx, limit, min_score) ==
    LET found == SubSeq(idx.cands, 1, Min(limit, Len(idx.cands)))
        keep == {n \in 1..Len(found) :
                    Truthy(min_score) => dataset[found[n]].score >= Val(min_score)}
        ps == positions(Len(found), keep)
    IN  [i \in 1..Len(ps) |-> found[ps[i]]]

\* the record of one search call, kept for the properties: the parameters of
\* the request, whether the call asked for or queried the index, whether that raised, whether an earlier
\* search call had the index raise, where the results came from
SearchRecord(req, params, g, queried, query_raised, path, results) ==
    [req |-> req,
     params |-> params,
     attempted |-> g.attempted \/ queried,
     index_failed |-> g.failed \/ query_raised,
     failed_before |-> /\ last.req \in {"search", "similar"}
                       /\ (last.index_failed \/ last.failed_before),
     path |-> path,
     results |-> results]

\* an exception of store.search left uncaught: the call answers nothing
semantic_search_uncaught(q, limit, genre, min_score, media_type, g, idx) ==
    IF g.handle /\ idx.mode = "query_raises"
    THEN [path |-> "raised", results |-> <<>>]
    ELSE IF g.handle
    THEN [path |-> "index", results |-> index_search(idx, limit, min_score)]
    ELSE [path |-> "fallback",
          results |-> text_search_fallback(q, limit, genre, min_score, media_type)]

semantic_search(q, limit, genre, min_score, media_type, g, idx) ==
    IF g.handle /\ idx.mode # "query_raises"
    THEN [path |-> "index", results |-> index_search(idx, limit, min_score)]
    ELSE [path |-> "fallback",
          results |-> text_search_fallback(q, limit, genre, min_score, media_type)]

SemanticSearch ==
    \E q \in SearchQueries, limit \in SearchLimits, genre \in SearchGenres,
       min_score \in SearchMinScores, media_type \in SearchMediaTypes,
       idx \in IndexOutcomes :
      \E g \in {get_vector_store_safe(vector_store, vector_store_error, store, idx)} :
        \E out \in {semantic_search(q, limit, genre, min_score, media_type, g, idx)} :
            /\ vector_store' = g.vector_store
            /\ vector_store_error' = g.vector_store_error
            /\ store' = g.store
            /\ last' = SearchRecord("search",
                                    [q |-> q, limit |-> limit, genre |-> genre,
                                     min_score |-> min_score,
                                     media_type |-> media_type],
                                    g, g.handle,
                                    g.handle /\ idx.mode = "query_raises",
                                    out.path, out.results)
                       @@ [similarity |->
                             IF out.path = "fallback"
                             THEN fallback_similarity(out.results, q)
                             ELSE <<>>]
            /\ UNCHANGED <<user_anime, user_manga, manga_store>>

\* the ids of the documents of the collection, and the orders in which
\* collection.query may report them (nearest first)
collection_ids == {1, 2, 3}
Rankings == {r \in [1..3 -> collection_ids] : \A i, j \in 1..3 : r[i] = r[j] => i = j}

\* the elements of q other than x, in order
RECURSIVE without(_, _)
without(q, x) ==
    IF q = <<>> THEN <<>>
    ELSE IF Head(q) = x THEN without(Tail(q), x)
    ELSE <<Head(q)>> \o without(Tail(q), x)

\* search_similar that returns what the query reported, the seed included
search_similar_with_seed(mal_id, n_results, ranking) ==
    IF mal_id \notin collection_ids THEN <<>>
    ELSE SubSeq(ranking, 1, Min(n_results, Len(ranking)))

\* AnimeVectorStore.search_similar (MangaVectorStore.search_similar is the
\* same code): nothing for an id the collection does not hold, else the
\* query for n_results + 1 documents without the seed, cut to n_results
search_similar(mal_id, n_results, ranking) ==
    IF mal_id \notin collection_ids THEN <<>>
    ELSE LET formatted == without(SubSeq(ranking, 1, Min(n_results + 1, Len(ranking))),
                                  mal_id)
         IN  SubSeq(formatted, 1, Min(n_results, Len(formatted)))

\* find_similar that answers with the note whenever it has no results
find_similar_note_when_empty(mal_id, limit, g, idx, ranking) ==
    IF g.handle /\ idx.mode # "query_raises"
       /\ search_similar(mal_id, limit, ranking) # <<>>
    THEN [path |-> "index", results |-> search_similar(mal_id, limit, ranking)]
    ELSE [path |-> "note", results |-> <<>>]

\* find_similar: the results of store.search_similar, the error answer when
\* it finds nothing, the note when there is no handle or the query raised
find_similar(mal_id, limit, g, idx, ranking) ==
    IF g.handle /\ idx.mode # "query_raises"
    THEN IF search_similar(mal_id, limit, ranking) = <<>>
         THEN [path |-> "not_found", results |-> <<>>]
         ELSE [path |-> "index",
               results |-> search_similar(mal_id, limit, ranking)]
    ELSE [path |-> "note", results |-> <<>>]

FindSimilar ==
    \E mal_id \in SimilarIds, limit \in SearchLimits, mode \in IndexModes,
       ranking \in Rankings :
      \E idx \in {[mode |-> mode, cands |-> <<>>]} :
        \E g \in {get_vector_store_safe(vector_store, vector_store_error, store, idx)} :
          \E out \in {find_similar(mal_id, limit, g, idx, ranking)} :
            /\ vector_store' = g.vector_store
            /\ vector_store_error' = g.vector_store_error
            /\ store' = g.store
            /\ last' = SearchRecord("similar",
                                    [mal_id |-> mal_id, limit |-> limit,
                                     ranking |-> ranking],
                                    g, g.handle,
                                    g.handle /\ idx.mode = "query_raises",
                                    out.path, out.results)
            /\ UNCHANGED <<user_anime, user_manga, manga_store>>

InitSearch ==
    /\ user_anime = <<>>
    /\ user_manga = <<>>
    /\ store \in BOOLEAN
    /\ manga_store = FALSE
    /\ vector_store = FALSE
    /\ vector_store_error = FALSE
    /\ last = NoRequest

NextSearch == SemanticSearch \/ FindSimilar
SpecSearch == InitSearch /\ [][NextSearch]_vars

(***************************************************************************)
(* Ranking (search_utils.py)                                               *)
(*                                                                         *)
(* Numbers are integers: a similarity in hundredths, a MAL score in        *)
(* hundredths of a point, a normalized popularity in units of 1 / POP_UNIT *)
(* and a combined score in ten-thousandths, as round(combined, 4) leaves   *)
(* it.  A sum that falls exactly between two ten-thousandths is rounded as *)
(* the floating-point value happens to lie: up or down                     *)
(***************************************************************************)
POP_UNIT == 20000
weight_similarity == 6
weight_anime_score == 3
weight_popularity == 1

\* the rule for the ranks up to 1000 applied to every number, 0 and the
\* negative ones included
normalized_pop_no_default(popularity) ==
    IF popularity = None THEN POP_UNIT \div 2
    ELSE IF Val(popularity) <= 1000 THEN POP_UNIT - 10 * Val(popularity)
    ELSE Max(POP_UNIT \div 10, POP_UNIT \div 2 - (Val(popularity) - 1000))

\* normalized_pop of calculate_combined_score: 0.5 by default, 1 - p / 2000
\* up to rank 1000, max(0.1, 0.5 - (p - 1000) / 20000) above
normalized_pop(popularity) ==
    IF Truthy(popularity) /\ Val(popularity) > 0
    THEN IF Val(popularity) <= 1000 THEN POP_UNIT - 10 * Val(popularity)
         ELSE Max(POP_UNIT \div 10, POP_UNIT \div 2 - (Val(popularity) - 1000))
    ELSE POP_UNIT \div 2

\* round(x / unit, 4) in ten-thousandths, for a unit that 10000 divides
round4(x, unit, half_up) ==
    IF 2 * (x % (unit \div 10000)) > unit \div 10000
       \/ (2 * (x % (unit \div 10000)) = unit \div 10000 /\ half_up)
    THEN x \div (unit \div 10000) + 1
    ELSE x \div (unit \div 10000)

\* the weighted sum with the popularity term at ten times its weight
weighted_sum_heavy_popularity(similarity, anime_score, popularity) ==
    weight_similarity * (POP_UNIT \div 100) * similarity
    + weight_anime_score * (POP_UNIT \div 1000)
          * (IF Truthy(anime_score) THEN Val(anime_score) ELSE 0)
    + 10 * weight_popularity * normalized_pop(popularity)

\* 0.6 * similarity + 0.3 * (anime_score or 0) / 10 + 0.1 * normalized_pop,
\* in units of 1 / (10 * POP_UNIT)
weighted_sum(similarity, anime_score, popularity) ==
    weight_similarity * (POP_UNIT \div 100) * similarity
    + weight_anime_score * (POP_UNIT \div 1000)
          * (IF Truthy(anime_score) THEN Val(anime_score) ELSE 0)
    + weight_popularity * normalized_pop(popularity)

\* calculate_combined_score with the default weights
calculate_combined_score(similarity, anime_score, popularity, half_up) ==
    round4(weighted_sum(similarity, anime_score, popularity), 10 * POP_UNIT, half_up)

Similarities == {0, 50, 100}
AnimeScores == {None, Some(0), Some(875), Some(1000)}
Popularities ==
    {None} \cup {Some(p) : p \in {-5, 0, 1, 2, 1000, 1001, 9000, 9001, 50000}}

\* one evaluation of the score, kept for the properties with the popularity
\* and the normalized popularity of the evaluation before it
CalculateCombinedScore ==
    \E similarity \in Similarities, anime_score \in AnimeScores,
       popularity \in Popularities, half_up \in BOOLEAN :
        /\ last' = [req |-> "score", similarity |-> similarity,
                    anime_score |-> anime_score, popularity |-> popularity,
                    normalized_pop |-> normalized_pop(popularity),
                    combined_score |->
                        calculate_combined_score(similarity, anime_score,
                                                 popularity, half_up),
                    before |-> IF last.req = "score"
                               THEN [popularity |-> last.popularity,
                                     normalized_pop |-> last.normalized_pop]
                               ELSE [popularity |-> popularity,
                                     normalized_pop |-> normalized_pop(popularity)]]
        /\ UNCHANGED <<user_anime, user_manga, store, manga_store, vector_store,
                       vector_store_error>>

\* search results as rerank_results reads them: similarity, metadata.score,
\* metadata.popularity
RerankItems ==
    {[mal_id |-> 1, similarity |-> 100, score |-> None, popularity |-> None],
     [mal_id |-> 2, similarity |-> 50, score |-> Some(1000), popularity |-> None],
     [mal_id |-> 3, similarity |-> 100, score |-> Some(1000), popularity |-> Some(1)]}
MaxResults == 3
RerankInputs == SeqsUpTo(RerankItems, MaxResults)
RerankLimits == {0, 1, 2, 15}

\* the values r["combined_score"] of the results
combined_scores(results, half_up) ==
    [i \in 1..Len(results) |->
        calculate_combined_score(results[i].similarity, results[i].score,
                                 results[i].popularity, half_up)]

\* a sort that puts the later of two positions with equal keys first
RECURSIVE sorted_reverse_unstable(_, _)
sorted_reverse_unstable(ps, key) ==
    IF ps = <<>> THEN <<>>
    ELSE CHOOSE out \in
            {<<ps[top]>> \o sorted_reverse_unstable(delete(ps, top), key) :
             top \in {i \in 1..Len(ps) :
                        \A j \in 1..Len(ps) :
                            j # i => \/ key[ps[i]] > key[ps[j]]
                                     \/ key[ps[i]] = key[ps[j]] /\ i > j}} : TRUE

\* sorted(results, key=combined_score, reverse=True) of the positions ps:
\* descending, positions with equal keys in their order
RECURSIVE sorted_reverse(_, _)
sorted_reverse(ps, key) ==
    IF ps = <<>> THEN <<>>
    ELSE CHOOSE out \in
            {<<ps[top]>> \o sorted_reverse(delete(ps, top), key) :
             top \in {i \in 1..Len(ps) :
                        \A j \in 1..Len(ps) :
                            j # i => \/ key[ps[i]] > key[ps[j]]
                                     \/ key[ps[i]] = key[ps[j]] /\ i < j}} : TRUE

\* rerank_results: the positions of the results it returns, in order
rerank_results(results, limit, half_up) ==
    CHOOSE out \in
        {SubSeq(reranked, 1, Min(limit, Len(reranked))) :
         reranked \in {sorted_reverse([i \in 1..Len(results) |-> i], key) :
                       key \in {combined_scores(results, half_up)}}} : TRUE

RerankResults ==
    \E results \in RerankInputs, limit \in RerankLimits, half_up \in BOOLEAN :
        /\ last' = [req |-> "rerank", results |-> results, limit |-> limit,
                    combined_score |-> combined_scores(results, half_up),
                    order |-> rerank_results(results, limit, half_up)]
        /\ UNCHANGED <<user_anime, user_manga, store, manga_store, vector_store,
                       vector_store_error>>

InitRank ==
    /\ user_anime = <<>>
    /\ user_manga = <<>>
    /\ store = FALSE
    /\ manga_store = FALSE
    /\ vector_store = FALSE
    /\ vector_store_error = FALSE
    /\ last = NoRequest

NextRank == CalculateCombinedScore \/ RerankResults
SpecRank == InitRank /\ [][NextRank]_vars

(***************************************************************************)
(* Two requests on one key, each in a server process of its own with a     *)
(* Session of its own on the shared database file (database.py             *)
(* SessionLocal).  Inside one process a handler is a coroutine without an  *)
(* await between its query and its commit, so the steps of two handlers    *)
(* interleave only across processes.  A handler is split where it talks to *)
(* the database: the SELECT of its query, and the flush of db.commit().    *)
(***************************************************************************)
Workers == {1, 2}

\* bound on the rows of user_anime in the interleaving model
MaxRaceRows == 4

\* the key both requests are about
race_user == 1
race_anime == 1

\* the requests: POST /api/lists/add (AddToListRequest) and the chat action
\* rate_anime, whose rating is clamped before the query
RaceRequests ==
    {[op |-> "add_to_list", status |-> "watching", rating |-> None],
     [op |-> "add_to_list", status |-> "completed", rating |-> Some(9)],
     [op |-> "rate_anime", status |-> "completed", rating |-> Some(clamp(15))]}

Idle == [pc |-> "idle", request |-> None, existing |-> 0, loaded |-> None]

\* existing = db.query(UserAnime).filter(user_id, anime_id).first(): the
\* primary key of the row and the attribute values loaded into the Session
query_existing(rows, request) ==
    LET i == first(rows, race_user, race_anime)
    IN  [pc |-> "queried", request |-> Some(request), existing |-> i,
         loaded |-> IF i = 0 THEN None ELSE Some(rows[i])]

\* the attribute values the handler assigns to the loaded row
assigned(request, loaded) ==
    IF request.op = "add_to_list"
    THEN [loaded EXCEPT !.status = request.status,
                        !.rating = IF IsNone(request.rating) THEN @
                                   ELSE request.rating]
    ELSE [loaded EXCEPT !.rating = request.rating]

\* the flush of db.commit(): the UPDATE of the loaded row sets only the
\* columns whose assigned value differs from the loaded one, WHERE id = the
\* primary key; with nothing loaded, the INSERT of the new row
flush(rows, s) ==
    IF s.existing = 0
    THEN Append(rows, Row(race_user, race_anime, Val(s.request).status,
                          Val(s.request).rating))
    ELSE LET new == assigned(Val(s.request), Val(s.loaded))
         IN  [rows EXCEPT ![s.existing] =
                [@ EXCEPT !.status = IF new.status # Val(s.loaded).status
                                     THEN new.status ELSE @,
                          !.rating = IF new.rating # Val(s.loaded).rating
                                     THEN new.rating ELSE @]]

Sessions(sessions) == [req |-> "sessions", sessions |-> sessions]

\* a request arrives at worker p and runs up to the answer of its query
QueryExisting(p) ==
    /\ last.sessions[p].pc = "idle"
    /\ Len(user_anime) + Cardinality(Workers) <= MaxRaceRows
    /\ \E request \in RaceRequests :
          last' = Sessions([last.sessions EXCEPT
                               ![p] = query_existing(user_anime, request)])
    /\ UNCHANGED <<user_anime, user_manga, store, manga_store, vector_store,
                   vector_store_error>>

\* worker p runs from the answer of its query through db.commit()
Commit(p) ==
    /\ last.sessions[p].pc = "queried"
    /\ user_anime' = flush(user_anime, last.sessions[p])
    /\ last' = Sessions([last.sessions EXCEPT ![p].pc = "done"])
    /\ UNCHANGED <<user_manga, store, manga_store, vector_store,
                   vector_store_error>>

\* both responses are sent; the workers are free for the next requests
Respond ==
    /\ \A p \in Workers : last.sessions[p].pc = "done"
    /\ last' = Sessions([p \in Workers |-> Idle])
    /\ UNCHANGED <<user_anime, user_manga, store, manga_store, vector_store,
                   vector_store_error>>

InitRace ==
    /\ user_anime \in {<<>>, OtherRows}
    /\ user_manga = <<>>
    /\ store = TRUE
    /\ manga_store = TRUE
    /\ vector_store = FALSE
    /\ vector_store_error = FALSE
    /\ last = Sessions([p \in Workers |-> Idle])

NextRace ==
    \/ \E p \in Workers : QueryExisting(p)
    \/ \E p \in Workers : Commit(p)
    \/ Respond

SpecRace == InitRace /\ [][NextRace]_vars

(***************************************************************************)
(* The process-wide singletons (chroma_store.py _store,                    *)
(* manga_chroma_store.py _manga_store, search.py _vector_store).  Every    *)
(* caller of an accessor is a coroutine of the one event loop and the      *)
(* accessors and constructors do not await, so a call of an accessor,      *)
(* construction included, is one step; requests are concurrent in that     *)
(* several have arrived before any of them has called its accessor.        *)
(***************************************************************************)
Callers == {1, 2, 3}
Accessors == {"get_vector_store", "get_manga_vector_store",
              "get_vector_store_safe"}
Kind(accessor) ==
    IF accessor = "get_manga_vector_store" THEN "manga" ELSE "anime"

\* an accessor that constructs on every call
get_vector_store_unguarded(st, inst, constructed, ok) ==
    IF ok
    THEN [store |-> TRUE, instance |-> constructed + 1,
          constructed |-> constructed + 1, handle |-> constructed + 1]
    ELSE [store |-> st, instance |-> inst, constructed |-> constructed,
          handle |-> 0]

\* get_vector_store(): st is `_store is not None`, inst the instance in
\* _store (0 for None, else the number of the constructor run that made it),
\* constructed the constructor runs that returned; ok says whether a
\* constructor run returns or raises.  handle 0: the call raised.
get_vector_store(st, inst, constructed, ok) ==
    IF st
    THEN [store |-> st, instance |-> inst, constructed |-> constructed,
          handle |-> inst]
    ELSE IF ok
    THEN [store |-> TRUE, instance |-> constructed + 1,
          constructed |-> constructed + 1, handle |-> constructed + 1]
    ELSE [store |-> st, instance |-> inst, constructed |-> constructed,
          handle |-> 0]

\* get_manga_vector_store(): the same code on _manga_store
get_manga_vector_store(st, inst, constructed, ok) ==
    IF st
    THEN [store |-> st, instance |-> inst, constructed |-> constructed,
          handle |-> inst]
    ELSE IF ok
    THEN [store |-> TRUE, instance |-> constructed + 1,
          constructed |-> constructed + 1, handle |-> constructed + 1]
    ELSE [store |-> st, instance |-> inst, constructed |-> constructed,
          handle |-> 0]

NoCaller == [pc |-> "idle", accessor |-> "none", first |-> FALSE, handle |-> 0]

Handles(h) ==
    [req |-> "callers", instance |-> h.instance, cached |-> h.cached,
     constructed |-> h.constructed, callers |-> h.callers]

\* a request arrives whose handler will call the accessor; first: it arrives
\* while the singleton of its accessor is still None
Arrive(p) ==
    /\ last.callers[p].pc = "idle"
    /\ \E accessor \in Accessors :
          last' = Handles([last EXCEPT !.callers[p] =
                     [pc |-> "arrived", accessor |-> accessor,
                      first |-> IF Kind(accessor) = "manga" THEN ~manga_store
                                ELSE ~store,
                      handle |-> 0]])
    /\ UNCHANGED <<user_anime, user_manga, store, manga_store, vector_store,
                   vector_store_error>>

\* the handler of p runs its accessor call
CallAccessor(p) ==
    /\ last.callers[p].pc = "arrived"
    /\ \E ok \in BOOLEAN :
          LET accessor == last.callers[p].accessor
              direct == get_vector_store(store, last.instance.anime,
                                         last.constructed.anime, ok)
              manga == get_manga_vector_store(manga_store, last.instance.manga,
                                              last.constructed.manga, ok)
              safe == get_vector_store_safe(vector_store, vector_store_error,
                         store,
                         [mode |-> IF ok THEN "ok" ELSE "construct_raises",
                          cands |-> <<>>])
              \* get_vector_store() as called inside get_vector_store_safe
              inner == IF safe.attempted THEN direct
                       ELSE [store |-> store, instance |-> last.instance.anime,
                             constructed |-> last.constructed.anime,
                             handle |-> 0]
              cached == IF safe.attempted /\ safe.vector_store
                        THEN inner.handle ELSE last.cached
          IN  CASE accessor = "get_vector_store" ->
                    /\ store' = direct.store
                    /\ last' = Handles([last EXCEPT
                          !.instance.anime = direct.instance,
                          !.constructed.anime = direct.constructed,
                          !.callers[p].pc = "returned",
                          !.callers[p].handle = direct.handle])
                    /\ UNCHANGED <<manga_store, vector_store,
                                   vector_store_error>>
                [] accessor = "get_manga_vector_store" ->
                    /\ manga_store' = manga.store
                    /\ last' = Handles([last EXCEPT
                          !.instance.manga = manga.instance,
                          !.constructed.manga = manga.constructed,
                          !.callers[p].pc = "returned",
                          !.callers[p].handle = manga.handle])
                    /\ UNCHANGED <<store, vector_store, vector_store_error>>
                [] accessor = "get_vector_store_safe" ->
                    /\ store' = inner.store
                    /\ vector_store' = safe.vector_store
                    /\ vector_store_error' = safe.vector_store_error
                    /\ last' = Handles([last EXCEPT
                          !.instance.anime = inner.instance,
                          !.constructed.anime = inner.constructed,
                          !.cached = cached,
                          !.callers[p].pc = "returned",
                          !.callers[p].handle =
                              IF safe.handle THEN cached ELSE 0])
                    /\ UNCHANGED manga_store
    /\ UNCHANGED <<user_anime, user_manga>>

\* the response of p is sent
Finish(p) ==
    /\ last.callers[p].pc = "returned"
    /\ last' = Handles([last EXCEPT !.callers[p] = NoCaller])
    /\ UNCHANGED <<user_anime, user_manga, store, manga_store, vector_store,
                   vector_store_error>>

InitHandle ==
    /\ user_anime = <<>>
    /\ user_manga = <<>>
    /\ store = FALSE
    /\ manga_store = FALSE
    /\ vector_store = FALSE
    /\ vector_store_error = FALSE
    /\ last = Handles([instance |-> [anime |-> 0, manga |-> 0], cached |-> 0,
                       constructed |-> [anime |-> 0, manga |-> 0],
                       callers |-> [p \in Callers |-> NoCaller]])

NextHandle ==
    \/ \E p \in Callers : Arrive(p)
    \/ \E p \in Callers : CallAccessor(p)
    \/ \E p \in Callers : Finish(p)

SpecHandle == InitHandle /\ [][NextHandle]_vars

(***************************************************************************)
(* Properties                                                              *)
(***************************************************************************)
Table(kind) == IF kind = "anime" THEN user_anime ELSE user_manga

IsExec == last.req = "execute"
Failure(message) ==
    /\ ~last.raised
    /\ Len(last.results) = 1
    /\ ~last.results[1].success
    /\ last.results[1].message = message
Success ==
    /\ ~last.raised
    /\ Len(last.results) = 1
    /\ last.results[1].success
Key == entries(Table(last.kind), last.user, Val(last.resolved))
FirstEntry == Table(last.kind)[first(Table(last.kind), last.user, Val(last.resolved))]

\* C1: a table holds at most one entry for a (user, title) key, whatever
\* sequence of chat actions and imports produced it.
C1_UniqueEntry ==
    \A rows \in {user_anime, user_manga} :
        \A i, j \in 1..Len(rows) :
            (rows[i].user_id = rows[j].user_id /\ rows[i].item_id = rows[j].item_id)
                => i = j

\* C2: a successful ActionResult exists only when the commit of its operation
\* returned (and the entry it reports is in the table); when the commit of an
\* operation fails, the call raises and returns no ActionResult.
C2_SuccessOnlyAfterCommit ==
    IsExec =>
        /\ \A k \in 1..Len(last.results) :
              last.results[k].success =>
                  /\ last.results[k].committed
                  /\ last.results[k].message # "removed" =>
                        entries(Table(last.kind), last.user,
                                Val(last.results[k].anime_id)) # {}
        /\ last.commit_failed => (last.raised /\ last.results = <<>>)

C2_Witness ==
    IsExec /\ last.commit_failed /\ last.raised /\ last.action = "rate_manga"

\* C3: when the index answers nothing or is unavailable, the executor does
\* not raise and returns a failed ActionResult saying the title was not found.
C3_ResolutionFailureReported ==
    (IsExec /\ last.index \in {"unavailable", "no_results"})
        => Failure("couldnt_find")

\* C4: after a rate operation on a resolved title that returned, the result
\* is a success and the entry holds the captured value brought into [1,10]:
\* 15 is stored as 10, 0 as 1, a value in between as it is.
C4_RateClamps ==
    (IsExec /\ last.action \in {"rate_anime", "rate_manga"}
        /\ ~IsNone(last.resolved) /\ ~last.raised)
        => /\ Success
           /\ Key # {}
           /\ LET v == Val(last.arg)
              IN  FirstEntry.rating =
                     Some(IF v > 10 THEN 10 ELSE IF v < 1 THEN 1 ELSE v)

C4_Witness ==
    IsExec /\ last.action = "rate_anime" /\ last.existed /\ Success
    /\ last.arg = Some(15) /\ FirstEntry.rating = Some(10)

\* C5: on a resolved title with no entry, changeRating returns a failure (not
\* in your list) and leaves the key without entry; rate returns a success and
\* leaves exactly one entry, completed, with the value brought into [1,10].
C5_ChangeNeedsEntryRateCreates ==
    (IsExec /\ ~IsNone(last.resolved) /\ ~last.existed /\ ~last.raised)
        => /\ last.action = "change_rating" =>
                (Failure("not_in_list") /\ Key = {})
           /\ last.action \in {"rate_anime", "rate_manga"} =>
                /\ Success
                /\ Cardinality(Key) = 1
                /\ FirstEntry.status = "completed"
                /\ LET v == Val(last.arg)
                   IN  FirstEntry.rating =
                          Some(IF v > 10 THEN 10 ELSE IF v < 1 THEN 1 ELSE v)

C5_Witness ==
    IsExec /\ last.action = "change_rating" /\ ~IsNone(last.resolved)
    /\ ~last.existed /\ Failure("not_in_list")

\* C6: a remove of an entry the user has succeeds (its commit succeeding), and
\* a remove that follows a successful remove of the same title returns a
\* failure (wasn't in your list), does not raise, and leaves no entry for it.
C6_RemoveTwice ==
    (IsExec /\ last.action \in {"remove_anime", "remove_manga"})
        => /\ (last.existed /\ ~last.commit_failed) => Success
           /\ (last.after_remove /\ ~last.commit_failed) =>
                (Failure("wasnt_in_list") /\ Key = {})

(***************************************************************************)
(* Properties of a chat turn and of the search calls                       *)
(***************************************************************************)
IsChat == last.req = "chat"
Range(q) == {q[i] : i \in 1..Len(q)}

\* C7: in a chat turn in which some rule of the manga table matches the
\* utterance, no anime rule is executed: only manga executors are called,
\* the anime list is not changed and no anime ActionResult is produced
C7_MangaMatchShortCircuitsAnime ==
    (IsChat /\ last.manga_matched) =>
        /\ Range(last.fired) \subseteq Range(MANGA_ACTIONS)
        /\ ~last.anime_changed
        /\ \A i \in 1..Len(last.actions_taken) :
              last.actions_taken[i].action \in Range(MANGA_ACTIONS)

\* C8: every rule that matches the utterance and is reached is executed and
\* contributes exactly one ActionResult: in a turn the executors leave
\* without an exception the results are those of the called rules, one each
\* and in call order
C8_EveryMatchedRuleYieldsOneResult ==
    (IsChat /\ last.failed # "actions") =>
        /\ Len(last.actions_taken) = Len(last.fired)
        /\ \A i \in 1..Len(last.fired) :
              last.actions_taken[i].action = last.fired[i]

\* C9: the block of executed actions in the context of the generator holds
\* no action whose ActionResult has success = false
C9_OnlySuccessesInExecutedBlock ==
    IsChat =>
        \A i \in 1..Len(last.actions_taken) :
            ~last.actions_taken[i].success
                => last.actions_taken[i].message \notin Range(last.action_context)

\* C10: a search call made after a search call in which constructing or
\* querying the index raised does not attempt the index, and a text search
\* made then takes its results from the text fallback
C10_IndexFailureIsSticky ==
    (last.req \in {"search", "similar"} /\ last.failed_before) =>
        /\ ~last.attempted
        /\ last.req = "search" => last.path = "fallback"

\* C11: a text search in which constructing or querying the index raised
\* does not raise: it answers with the results of the text fallback for the
\* query, the limit and the filters of the same request
C11_SearchFallsBackOnIndexFailure ==
    (last.req = "search" /\ last.index_failed) =>
        /\ last.path = "fallback"
        /\ last.results = text_search_fallback(last.params.q, last.params.limit,
                                               last.params.genre,
                                               last.params.min_score,
                                               last.params.media_type)

\* the constructor raised in a search the fallback answered with results
C11_Witness ==
    /\ last.req = "search" /\ last.index_failed /\ vector_store_error
    /\ last.path = "fallback" /\ last.results # <<>>

\* C12: find_similar does not raise; without a handle, or when the query
\* raised, it answers with no results and the note, and with a handle whose
\* query found nothing for the id it answers with no results and no note
C12_FindSimilarNoteOnlyWhenUnavailable ==
    last.req = "similar" =>
        /\ last.path \in {"index", "not_found", "note"}
        /\ (~last.attempted \/ last.index_failed)
              => (last.path = "note" /\ last.results = <<>>)
        /\ (last.attempted /\ ~last.index_failed
            /\ search_similar(last.params.mal_id, last.params.limit,
                              last.params.ranking) = <<>>)
              => (last.path = "not_found" /\ last.results = <<>>)

\* both cases have happened: the call before answered with the note after
\* the query raised, this one found nothing for an id and answers without
C12_Witness ==
    /\ last.req = "similar" /\ last.path = "not_found"
    /\ last.attempted /\ ~last.index_failed /\ last.failed_before

IsOrderedPart(part, whole) ==
    \E pos \in [1..Len(part) -> 1..Len(whole)] :
        /\ \A i \in 1..Len(part) : whole[pos[i]] = part[i]
        /\ \A i, j \in 1..Len(part) : i < j => pos[i] < pos[j]

\* C13: search_similar(id, k) of an id the collection does not hold is the
\* empty list; of an id it holds it is at most k results, none of them the
\* id itself, in the order the query for k + 1 documents reported them
C13_SearchSimilarExcludesSeed ==
    (last.req = "similar" /\ last.path \in {"index", "not_found"}) =>
        /\ last.params.mal_id \notin collection_ids => last.results = <<>>
        /\ Len(last.results) <= last.params.limit
        /\ last.params.mal_id \notin Range(last.results)
        /\ IsOrderedPart(last.results,
                         SubSeq(last.params.ranking, 1, last.params.limit + 1))

\* the query reported the seed first and the results are the k after it
C13_Witness ==
    /\ last.req = "similar" /\ last.path = "index"
    /\ last.params.ranking[1] = last.params.mal_id
    /\ Len(last.results) = last.params.limit /\ last.params.limit = 2

(***************************************************************************)
(* Properties of the ranking                                               *)
(***************************************************************************)
\* C14: rerank_results returns at most limit results, in descending order
\* of combined score, and two results with equal combined scores in the
\* order they had in the input
C14_RerankStableAndLimited ==
    last.req = "rerank" =>
        /\ Len(last.order) <= last.limit
        /\ \A i, j \in 1..Len(last.order) :
              i < j =>
                 /\ last.order[i] # last.order[j]
                 /\ last.combined_score[last.order[i]]
                       >= last.combined_score[last.order[j]]
                 /\ last.combined_score[last.order[i]]
                       = last.combined_score[last.order[j]]
                       => last.order[i] < last.order[j]

\* two different results with equal combined scores and a better one
\* between them in the input: the better one first, the two in their order
C14_Witness ==
    /\ last.req = "rerank" /\ Len(last.results) = 3
    /\ last.results[1].mal_id = 2 /\ last.results[2].mal_id = 3
    /\ last.results[3].mal_id = 1
    /\ last.combined_score[1] = last.combined_score[3]
    /\ last.order = <<2, 1, 3>>

\* C15: with the default weights the combined score of a similarity in
\* [0, 1], a score in [0, 10] or none and any popularity lies in [0, 1]
C15_CombinedScoreInUnitInterval ==
    (/\ last.req = "score"
     /\ last.similarity \in 0..100
     /\ last.anime_score = None \/ Val(last.anime_score) \in 0..1000) =>
        last.combined_score \in 0..10000

\* the best similarity, score and rank: the sum rounds up to 1
C15_Witness ==
    /\ last.req = "score" /\ last.similarity = 100
    /\ last.anime_score = Some(1000) /\ last.popularity = Some(1)
    /\ last.combined_score = 10000

\* C16: of two popularities p <= q <= 1000 the normalized popularity of q is
\* not above that of p, and above 1000 it is not below 0.1
C16_PopularityMonotone ==
    last.req = "score" =>
        /\ (/\ last.before.popularity # None /\ last.popularity # None
            /\ Val(last.before.popularity) <= Val(last.popularity)
            /\ Val(last.popularity) <= 1000)
              => last.normalized_pop <= last.before.normalized_pop
        /\ (last.popularity # None /\ Val(last.popularity) > 1000)
              => 10 * last.normalized_pop >= POP_UNIT

\* C16 for ranks: of two popularities 1 <= p <= q <= 1000 the normalized
\* popularity of q is not above that of p, and above 1000 it is not below
\* 0.1; a popularity of 0 or below counts as absent and gets the default 0.5
C16_RankMonotone ==
    last.req = "score" =>
        /\ (/\ last.before.popularity # None /\ last.popularity # None
            /\ 1 <= Val(last.before.popularity)
            /\ Val(last.before.popularity) <= Val(last.popularity)
            /\ Val(last.popularity) <= 1000)
              => last.normalized_pop <= last.before.normalized_pop
        /\ (last.popularity # None /\ Val(last.popularity) > 1000)
              => 10 * last.normalized_pop >= POP_UNIT
        /\ (last.popularity # None /\ Val(last.popularity) <= 0)
              => 2 * last.normalized_pop = POP_UNIT

\* rank 2 evaluated after rank 1: the normalized popularity went down
C16_Witness ==
    /\ last.req = "score"
    /\ last.before.popularity = Some(1) /\ last.popularity = Some(2)
    /\ last.normalized_pop < last.before.normalized_pop

(***************************************************************************)
(* Concurrent requests on one key                                          *)
(***************************************************************************)
IsRace == last.req = "sessions"
BothDone == IsRace /\ \A p \in Workers : last.sessions[p].pc = "done"

\* the row holds every field the request writes to an entry
WrittenBy(row, request) ==
    /\ request.op = "add_to_list" => row.status = request.status
    /\ ~IsNone(request.rating) => row.rating = request.rating

\* C17: when two requests on the same (user, title, kind) key have interleaved
\* their read-check and their insert/commit and both have completed, the table
\* holds exactly one entry for the key, and its fields are those written by
\* one of the two requests (last write wins).
C17_LastWriteWins ==
    BothDone =>
        LET key == entries(user_anime, race_user, race_anime)
        IN  /\ Cardinality(key) = 1
            /\ \E p \in Workers : \A i \in key :
                  WrittenBy(user_anime[i], Val(last.sessions[p].request))

(***************************************************************************)
(* The singletons                                                          *)
(***************************************************************************)
IsCallers == last.req = "callers"
Holds(p, kind) ==
    /\ last.callers[p].pc = "returned"
    /\ Kind(last.callers[p].accessor) = kind
    /\ last.callers[p].handle # 0

\* C18: however the concurrent first calls of an accessor are ordered, the
\* constructor of its adapter returns at most once, and every caller that
\* receives an instance receives the same one.
C18_InitializedOnce ==
    IsCallers =>
        \A kind \in {"anime", "manga"} :
            /\ last.constructed[kind] <= 1
            /\ \A p, q \in Callers :
                  (Holds(p, kind) /\ Holds(q, kind)) =>
                      last.callers[p].handle = last.callers[q].handle

\* three requests that arrived before the singleton was built hold their
\* handles, one of them through get_vector_store_safe
C18_Witness ==
    /\ IsCallers
    /\ \A p \in Callers : Holds(p, "anime") /\ last.callers[p].first
    /\ \E p, q \in Callers :
          /\ last.callers[p].accessor = "get_vector_store"
          /\ last.callers[q].accessor = "get_vector_store_safe"

(***************************************************************************)
(* The ratings of the list store                                           *)
(***************************************************************************)
\* C19: in every reachable state of the list store the rating of every entry
\* is absent or a value in [1, 10], whichever path wrote it (chat action,
\* list API, MAL XML or OAuth import).
C19_RatingInRange ==
    \A rows \in {user_anime, user_manga} :
        \A i \in 1..Len(rows) :
            \/ IsNone(rows[i].rating)
            \/ (RATING_MIN <= Val(rows[i].rating)
                /\ Val(rows[i].rating) <= RATING_MAX)

(***************************************************************************)
(* The entries of other users                                              *)
(***************************************************************************)
\* the entries of every user but uid, in table order
OthersOf(rows, uid) == SelectSeq(rows, LAMBDA r : r.user_id # uid)

\* C20: a chat action or a list operation performed for user A never creates,
\* changes or deletes a list entry of another user B: the entries whose user
\* is not A are the same before and after the operation.
C20_OtherUsersUntouched ==
    [][last'.req \in {"execute", "add_to_list", "update_list_entry",
                      "remove_from_list"}
         => /\ OthersOf(user_anime', last'.user) = OthersOf(user_anime, last'.user)
            /\ OthersOf(user_manga', last'.user) = OthersOf(user_manga, last'.user)]_vars

\* user 1 has removed the entry of item 1 while another user holds an entry
\* of the same item
C20_Witness ==
    /\ last.req = "remove_from_list"
    /\ ~last.raised
    /\ entries(Table(last.kind), last.user, 1) = {}
    /\ \E i \in 1..Len(Table(last.kind)) :
          /\ Table(last.kind)[i].user_id # last.user
          /\ Table(last.kind)[i].item_id = 1

(***************************************************************************)
(* The add intents                                                         *)
(***************************************************************************)
\* the status an add intent asks for
StatusOf(action) ==
    CASE action \in {"add_completed", "add_manga_completed"} -> "completed"
      [] action \in {"add_watching", "add_manga_reading"} -> "watching"
      [] action \in {"add_planned", "add_manga_planned"} -> "planned"
      [] action = "add_dropped" -> "dropped"
      [] action = "add_on_hold" -> "on_hold"

StatusActions ==
    {"add_completed", "add_watching", "add_planned", "add_dropped",
     "add_on_hold", "add_manga_completed", "add_manga_reading",
     "add_manga_planned"}

\* the table of a kind after the step
TableAfter(kind) == IF kind = "anime" THEN user_anime' ELSE user_manga'

\* the step is a call of an executor whose commit, if reached, returned
ExecStep == last'.req = "execute" /\ ~last'.commit_failed

\* C21: an add intent for any status of the enum, on a title the index
\* resolves, returns success = true; afterwards the key has exactly one entry
\* and it has that status; an entry that existed keeps its rating unless the
\* intent carried one, a missing entry is inserted.
C21_AddSetsStatus ==
    [][(ExecStep /\ last'.action \in StatusActions /\ last'.resolvable)
         => /\ last'.results # <<>>
            /\ last'.results[1].success
            /\ LET before == Table(last'.kind)
                   after == TableAfter(last'.kind)
                   uid == last'.user
                   iid == Val(last'.results[1].anime_id)
                   key == entries(after, uid, iid)
               IN  /\ Cardinality(key) = 1
                   /\ \A i \in key : after[i].status = StatusOf(last'.action)
                   /\ (first(before, uid, iid) > 0 /\ ~Truthy(last'.arg))
                         => after[first(after, uid, iid)].rating
                              = before[first(before, uid, iid)].rating]_vars

(***************************************************************************)
(* Retrieval context                                                       *)
(***************************************************************************)
IsContext == last.req = "context" /\ last.user # None

\* the results rerank_results returned for the turn
Reranked == Take(last.ranked, CONTEXT_LIMIT)

\* the position of x in the sequence s of distinct ids, 0 when absent
PositionIn(s, x) ==
    IF \E i \in 1..Len(s) : s[i] = x
    THEN CHOOSE i \in 1..Len(s) : s[i] = x ELSE 0

\* part holds elements of whole, in the order whole has them
KeepsOrder(part, whole) ==
    /\ \A i \in 1..Len(part) : PositionIn(whole, part[i]) > 0
    /\ \A i, j \in 1..Len(part) :
          i < j => PositionIn(whole, part[i]) < PositionIn(whole, part[j])

\* C22: in the retrieval context of an authenticated user the first five
\* reranked results are kept even when they are in the user's list, every
\* result beyond the fifth that is in the list is skipped, the kept results
\* keep their relative order, and at most 15 results remain.
C22_ContextKeepsTopFive ==
    IsContext =>
        /\ Take(last.context, KEEP_TOP) = Take(Reranked, KEEP_TOP)
        /\ \A i \in 1..Len(Reranked) :
              i > KEEP_TOP =>
                  (Reranked[i] \in Val(last.user)
                      <=> ~(\E j \in 1..Len(last.context) :
                               last.context[j] = Reranked[i]))
        /\ KeepsOrder(last.context, Reranked)
        /\ Len(last.context) <= CONTEXT_LIMIT

\* more than 15 results came back, some of the first five and some of the
\* later ones are in the user's list, and some later one is not
C22_Witness ==
    /\ IsContext
    /\ Len(last.ranked) > CONTEXT_LIMIT
    /\ \E i \in 1..KEEP_TOP : Reranked[i] \in Val(last.user)
    /\ \E i \in (KEEP_TOP + 1)..Len(Reranked) : Reranked[i] \in Val(last.user)
    /\ \E i \in (KEEP_TOP + 1)..Len(Reranked) : Reranked[i] \notin Val(last.user)

(***************************************************************************)
(* Rating an entry that exists                                             *)
(***************************************************************************)
RatingActions == {"rate_anime", "rate_manga", "change_rating"}

\* C23: a rate or change-rating operation on an entry that exists changes
\* only the rating of that entry: its status and its favourite flag are the
\* same before and after, and no other entry is changed, added or removed.
C23_RateChangesOnlyRating ==
    [][(/\ ExecStep
        /\ last'.action \in RatingActions
        /\ last'.results # <<>>
        /\ last'.results[1].success
        /\ last'.existed)
         => LET before == Table(last'.kind)
                after == TableAfter(last'.kind)
                i == first(before, last'.user, Val(last'.results[1].anime_id))
            IN  /\ Len(after) = Len(before)
                /\ \A j \in 1..Len(before) : j # i => after[j] = before[j]
                /\ after[i] = [before[i] EXCEPT !.rating = after[i].rating]
                /\ after[i].rating = Some(clamp(Val(last'.arg)))
                /\ \A kind \in {"anime", "manga"} :
                      kind # last'.kind => TableAfter(kind) = Table(kind)]_vars

\* a favourite entry with the status watching has just been rated
C23_Witness ==
    /\ IsExec
    /\ last.action = "rate_anime"
    /\ last.existed
    /\ last.results # <<>>
    /\ last.results[1].success
    /\ \E i \in entries(user_anime, last.user, Val(last.results[1].anime_id)) :
          /\ user_anime[i].status = "watching"
          /\ user_anime[i].is_favorite
          /\ user_anime[i].rating = Some(clamp(Val(last.arg)))
    /\ \E i \in 1..Len(user_anime) : user_anime[i].user_id # last.user

(***************************************************************************)
(* The rating of an add-to-completed intent                                *)
(***************************************************************************)
\* C24: when an add-to-completed intent carries a numeric rating v and the
\* operation succeeds, the rating of the entry is min(10, max(1, v)), for
\* every captured v, v = 0 included.
C24_AddCompletedClamps ==
    (/\ IsExec
     /\ last.action \in {"add_completed", "add_manga_completed"}
     /\ last.arg # None
     /\ last.results # <<>>
     /\ last.results[1].success)
        => LET rows == Table(last.kind)
               i == first(rows, last.user, Val(last.results[1].anime_id))
           IN  i > 0 /\ rows[i].rating = Some(clamp(Val(last.arg)))

(***************************************************************************)
(* Bulk upsert                                                             *)
(***************************************************************************)
IsBatch == last.req = "add_batch"

RECURSIVE Concat(_)
Concat(seqs) == IF seqs = <<>> THEN <<>> ELSE Head(seqs) \o Concat(Tail(seqs))

\* the ids of the batches upserted by the call, as document ids
Upserted == {ToString(Concat(last.batches)[k]) : k \in 1..Len(Concat(last.batches))}

\* C25: add_batch splits the input into consecutive batches of at most
\* batch_size items, every item in exactly one batch, and upserts them in
\* input order; when the upsert of batch j raises the call raises, the
\* batches after j are never upserted and the items of the batches before j
\* are in the index.
C25_BatchesInOrderUntilFailure ==
    IsBatch =>
        /\ \A b \in 1..Len(last.batches) :
              /\ Len(last.batches[b]) >= 1
              /\ Len(last.batches[b]) <= last.batch_size
              /\ b < Len(last.batches) =>
                    Len(last.batches[b]) = last.batch_size
        /\ ~last.raised => Concat(last.batches) = last.ids
        /\ last.raised =>
              /\ Len(last.batches) = last.fail_at - 1
              /\ Concat(last.batches)
                    = Take(last.ids, (last.fail_at - 1) * last.batch_size)
        /\ DOMAIN last.collection = DOMAIN last.before \cup Upserted
        /\ \A id \in DOMAIN last.collection :
              last.collection[id] = IF id \in Upserted THEN "new"
                                    ELSE last.before[id]

\* the second of three batches failed: the first is in the index over an
\* older document, the third was never upserted
C25_Witness ==
    /\ IsBatch
    /\ last.raised
    /\ last.fail_at = 2
    /\ Len(last.ids) > 2 * last.batch_size
    /\ \E id \in Upserted : id \in DOMAIN last.before
    /\ \E k \in 1..Len(last.ids) : ToString(last.ids[k]) \notin DOMAIN last.collection

(***************************************************************************)
(* Degraded construction                                                   *)
(***************************************************************************)
\* a constructor ran and its full initialization failed
InitFailed ==
    last.req = "construct" /\ last.ran /\ init_error(last.env) # "ok"

\* the existing collection can be opened without the embedding function
Openable == last.env.client = "ok" /\ last.env.plain

\* C26: when the full initialization of an adapter fails but the existing
\* collection can be opened without enforcing the embedding configuration,
\* the constructor returns a degraded instance instead of raising, whatever
\* the cause of the failure and for the anime and the manga adapter alike;
\* otherwise the constructor raises and no instance is cached.
C26_DegradedConstruction ==
    InitFailed =>
        IF Openable
        THEN ~last.raised /\ last.mode = "degraded" /\ last.cached
        ELSE last.raised /\ ~last.cached

(***************************************************************************)
(* The text fallback                                                       *)
(***************************************************************************)
IsFallback == last.req = "search" /\ last.path = "fallback"

\* the row of the catalog with the id
RowOf(id) == dataset[CHOOSE n \in 1..Len(dataset) : dataset[n].mal_id = id]

\* the ids of the titles that match the query and pass the filters given
Qualifying(p) ==
    {dataset[n].mal_id : n \in
        {m \in 1..Len(dataset) :
            /\ match_score(dataset[m], p.q) > 0
            /\ p.genre # None => In(Val(p.genre), dataset[m].genres)
            /\ p.min_score # None => dataset[m].score >= Val(p.min_score)
            /\ p.media_type # None => dataset[m].media_type = Val(p.media_type)}}

\* a comes strictly before b in (matchScore, title score) descending order
Better(a, b, q) ==
    \/ match_score(RowOf(a), q) > match_score(RowOf(b), q)
    \/ /\ match_score(RowOf(a), q) = match_score(RowOf(b), q)
       /\ RowOf(a).score > RowOf(b).score

\* C27: the text fallback returns exactly the first k titles, in (matchScore
\* descending, title score descending) order, among the catalog titles whose
\* matchScore (10 per query token in the title, 5 per token in the genres, 1
\* per token in the synopsis) is greater than 0 and that pass every given
\* filter; each similarity is matchScore / 100 and so positive.
C27_FallbackTopK ==
    IsFallback =>
        LET p == last.params
            ids == last.results
        IN  /\ Len(ids) = Min(p.limit, Cardinality(Qualifying(p)))
            /\ \A i \in 1..Len(ids) : ids[i] \in Qualifying(p)
            /\ \A i, j \in 1..Len(ids) :
                  i < j => ids[i] # ids[j] /\ ~Better(ids[j], ids[i], p.q)
            /\ \A x \in Qualifying(p) :
                  (\A i \in 1..Len(ids) : ids[i] # x)
                      => \A i \in 1..Len(ids) : ~Better(x, ids[i], p.q)
            /\ Len(last.similarity) = Len(ids)
            /\ \A i \in 1..Len(ids) :
                  /\ last.similarity[i] = match_score(RowOf(ids[i]), p.q)
                  /\ last.similarity[i] > 0

\* three titles match, two of them with the same matchScore: the one with
\* the higher title score comes first of the two and the other is cut off
C27_Witness ==
    /\ IsFallback
    /\ Cardinality(Qualifying(last.params)) = 3
    /\ last.params.limit = 2
    /\ last.results = <<3, 2>>
    /\ match_score(RowOf(2), last.params.q) = match_score(RowOf(1), last.params.q)

(***************************************************************************)
(* A turn that fails after its actions                                     *)
(***************************************************************************)
\* the turn failed at a stage after the actions
FailedLater == IsChat /\ last.failed \in {"retrieval", "generator"}

\* the table an action type works on
TableOfAction(action) ==
    IF action \in Range(MANGA_ACTIONS) THEN user_manga ELSE user_anime

\* C28: a list mutation an action committed during a chat turn is in the
\* store after the turn when a later stage of the turn fails (the retrieval
\* raises, or the generator call raises and the turn is answered with an
\* error): the entry an action added or rated is there, the entry it
\* removed is not.
C28_CommittedMutationSurvivesFailure ==
    FailedLater =>
        \A k \in 1..Len(last.actions_taken) :
            LET a == last.actions_taken[k]
                key == entries(TableOfAction(a.action), Val(last.user),
                               Val(a.anime_id))
            IN  a.committed =>
                    /\ a.message = "removed" => key = {}
                    /\ a.message = "added" =>
                          \E i \in key :
                              TableOfAction(a.action)[i].status = StatusOf(a.action)
                    /\ a.message \in {"rated", "changed"} =>
                          \E i \in key :
                              TableOfAction(a.action)[i].rating = a.msg_rating

\* the generator call failed in a turn whose action had changed the list
C28_Witness ==
    /\ FailedLater
    /\ last.failed = "generator"
    /\ last.anime_changed
    /\ \E k \in 1..Len(last.actions_taken) : last.actions_taken[k].committed

(***************************************************************************)
(* Utterances without a manga word                                         *)
(***************************************************************************)
\* C29: an utterance that holds none of the words manga, reading, read is
\* never executed as a manga operation: the turn leaves the manga list of
\* the user unchanged and every ActionResult it produces is an anime one.
C29_NoMangaWordNoMangaAction ==
    (IsChat /\ ~last.manga_word) =>
        /\ ~last.manga_changed
        /\ \A k \in 1..Len(last.actions_taken) :
              last.actions_taken[k].action \notin Range(MANGA_ACTIONS)

(***************************************************************************)
(* The rating a result message states                                      *)
(***************************************************************************)
\* C30: when the message of a successful ActionResult states a rating, that
\* value is the rating stored in the list entry after the operation, for
\* rate, change-rating and add-to-completed with a rating alike.
C30_MessageStatesStoredRating ==
    (/\ IsExec
     /\ last.results # <<>>
     /\ last.results[1].success
     /\ last.results[1].msg_rating # None)
        => LET rows == Table(last.kind)
               i == first(rows, last.user, Val(last.results[1].anime_id))
           IN  i > 0 /\ rows[i].rating = last.results[1].msg_rating

====
